---- MODULE Spec2Model ----
(***************************************************************************)
(* Model of the mushroom-cultivation backend: the data store written by    *)
(* the batch / observation / harvest routes and the rule-based insight     *)
(* engine of services/ai_insights.py that reads it.                        *)
(*                                                                         *)
(* Numbers.  Readings are fixed-point integers in tenths of their unit     *)
(* (20.0 C is 200, 80.0 % is 800, 2.0 kg is 20).  Every value the engine   *)
(* derives from them (means, products with 0.65, 1.2, ...) is an exact     *)
(* rational <<numerator, denominator>> in the same tenths, reduced to      *)
(* lowest terms.  Binary floating-point rounding is not modelled.          *)
(*                                                                         *)
(* Optional values.  None is <<>>, a present value v is <<v>>.             *)
(*                                                                         *)
(* Messages.  Each f-string the engine appends is a record whose kind      *)
(* names the literal text and whose other fields are the values the        *)
(* f-string interpolates, before formatting.                               *)
(***************************************************************************)
EXTENDS Integers, Sequences, FiniteSets, TLC

VARIABLES batches, observations, harvests, op, args, ret, queries

vars == <<batches, observations, harvests, op, args, ret, queries>>
store == <<batches, observations, harvests>>

(***************************************************************************)
(* Bounds of the model.                                                    *)
(***************************************************************************)
MaxBatches == 2
MaxRows == 2
MaxDate == 2
MaxFlush == 2
MaxIds == 2
MaxObs == 4
MaxHarvests == 3

(***************************************************************************)
(* Optional values and Python truthiness.                                  *)
(***************************************************************************)
None == <<>>
Some(v) == <<v>>
Val(x) == x[1]
\* bool(x) for an Optional[float]: None and 0.0 are both falsy
TruthyNum(x) == x # <<>> /\ x[1] # 0

(***************************************************************************)
(* Exact rationals <<n, d>> with d > 0, in lowest terms.                   *)
(***************************************************************************)
Abs(x) == IF x < 0 THEN -x ELSE x

RECURSIVE GCD(_, _)
GCD(a, b) == IF b = 0 THEN a ELSE GCD(b, a % b)

Norm(n, d) ==
    LET g == GCD(Abs(n), d)
    IN  <<n \div g, d \div g>>

R(x) == <<x, 1>>
RAdd(a, b) == Norm(a[1] * b[2] + b[1] * a[2], a[2] * b[2])
RSub(a, b) == Norm(a[1] * b[2] - b[1] * a[2], a[2] * b[2])
RMul(a, b) == Norm(a[1] * b[1], a[2] * b[2])
\* a / b for b > 0
RDiv(a, b) == Norm(a[1] * b[2], a[2] * b[1])
RLt(a, b) == a[1] * b[2] < b[1] * a[2]
RGt(a, b) == RLt(b, a)
RLe(a, b) == ~RLt(b, a)

(***************************************************************************)
(* Python list built-ins.                                                  *)
(***************************************************************************)
RECURSIVE SeqSum(_)
SeqSum(s) == IF s = <<>> THEN 0 ELSE s[1] + SeqSum(Tail(s))

RECURSIVE SeqMax(_)
SeqMax(s) ==
    IF Len(s) = 1 THEN s[1]
    ELSE LET m == SeqMax(Tail(s)) IN IF s[1] >= m THEN s[1] ELSE m

RECURSIVE SeqMin(_)
SeqMin(s) ==
    IF Len(s) = 1 THEN s[1]
    ELSE LET m == SeqMin(Tail(s)) IN IF s[1] <= m THEN s[1] ELSE m

\* s[:k]
Take(s, k) == SubSeq(s, 1, IF k < Len(s) THEN k ELSE Len(s))
\* s[-k:]
LastK(s, k) == SubSeq(s, IF Len(s) > k THEN Len(s) - k + 1 ELSE 1, Len(s))
\* sum(s) / len(s) for a non-empty list of tenths
Mean(s) == Norm(SeqSum(s), Len(s))

Range(s) == {s[i] : i \in DOMAIN s}

\* every enumeration of a finite set as a list
Perms(S) ==
    {f \in [1..Cardinality(S) -> S] : \A x \in S : \E i \in DOMAIN f : f[i] = x}

\* sorted(s, key): stable insertion sort, ascending, over <<key, item>> pairs
RECURSIVE InsertPair(_, _)
InsertPair(p, s) ==
    IF s = <<>> THEN <<p>>
    ELSE IF p[1] < s[1][1] THEN <<p>> \o s
    ELSE <<s[1]>> \o InsertPair(p, Tail(s))

RECURSIVE SortPairs(_)
SortPairs(s) ==
    IF s = <<>> THEN <<>>
    ELSE InsertPair(s[Len(s)], SortPairs(SubSeq(s, 1, Len(s) - 1)))

SortBy(s, Key(_)) ==
    LET sorted == SortPairs([i \in DOMAIN s |-> <<Key(s[i]), s[i]>>])
    IN  [i \in DOMAIN s |-> sorted[i][2]]

(***************************************************************************)
(* services/ai_insights.py: optimal ranges, in tenths.                     *)
(***************************************************************************)
OPTIMAL_TEMPERATURE_MIN == 200
OPTIMAL_TEMPERATURE_MAX == 240
OPTIMAL_HUMIDITY_MIN == 800
OPTIMAL_HUMIDITY_MAX == 900
OPTIMAL_LIGHT_HOURS_MIN == 100
OPTIMAL_LIGHT_HOURS_MAX == 140

(***************************************************************************)
(* _analyze_observations.  observations is a list of rows with the fields  *)
(* date, ambient_temperature_celsius, relative_humidity_percent,           *)
(* CO2_level and light_hours_per_day, the last four optional.              *)
(***************************************************************************)
\* [o.f for o in observations if o.f is not None]
TempsOf(obs) ==
    LET present == SelectSeq(obs, LAMBDA o : o.ambient_temperature_celsius # None)
    IN  [i \in DOMAIN present |-> Val(present[i].ambient_temperature_celsius)]

HumiditiesOf(obs) ==
    LET present == SelectSeq(obs, LAMBDA o : o.relative_humidity_percent # None)
    IN  [i \in DOMAIN present |-> Val(present[i].relative_humidity_percent)]

LightHoursOf(obs) ==
    LET present == SelectSeq(obs, LAMBDA o : o.light_hours_per_day # None)
    IN  [i \in DOMAIN present |-> Val(present[i].light_hours_per_day)]

Co2LevelsOf(obs) ==
    LET present == SelectSeq(obs, LAMBDA o : o.CO2_level # None)
    IN  [i \in DOMAIN present |-> Val(present[i].CO2_level)]

\* mutant of TemperatureWarnings: the threshold test written >= 5.0
TemperatureWarnings_ge(temps) ==
    LET temp_variance == IF Len(temps) > 1 THEN SeqMax(temps) - SeqMin(temps) ELSE 0
    IN  IF temp_variance >= 50
        THEN <<[kind |-> "temperature_variance",
                lo |-> SeqMin(temps), hi |-> SeqMax(temps)]>>
        ELSE <<>>

\* temp_variance and the warning on it (temps non-empty)
TemperatureWarnings(temps) ==
    LET temp_variance == IF Len(temps) > 1 THEN SeqMax(temps) - SeqMin(temps) ELSE 0
    IN  IF temp_variance > 50
        THEN <<[kind |-> "temperature_variance",
                lo |-> SeqMin(temps), hi |-> SeqMax(temps)]>>
        ELSE <<>>

\* the suggestion on avg_temp (temps non-empty)
TemperatureSuggestions(temps) ==
    LET avg_temp == Mean(temps)
    IN  IF RLt(avg_temp, R(OPTIMAL_TEMPERATURE_MIN))
        THEN <<[kind |-> "temperature_below", avg |-> avg_temp]>>
        ELSE IF RGt(avg_temp, R(OPTIMAL_TEMPERATURE_MAX))
        THEN <<[kind |-> "temperature_above", avg |-> avg_temp]>>
        ELSE <<[kind |-> "temperature_optimal", avg |-> avg_temp]>>

\* mutant of TemperatureTrends: the earlier window is always everything
\* before the last 3 readings
TemperatureTrends_all_before(temps) ==
    IF Len(temps) >= 3
    THEN LET recent_temps == LastK(temps, 3)
             earlier_temps == Take(temps, Len(temps) - 3)
         IN  IF earlier_temps # <<>>
             THEN LET recent_avg == Mean(recent_temps)
                      earlier_avg == Mean(earlier_temps)
                  IN  IF RGt(recent_avg, RAdd(earlier_avg, R(10)))
                      THEN <<[kind |-> "temperature_increasing",
                              earlier |-> earlier_avg, recent |-> recent_avg]>>
                      ELSE IF RLt(recent_avg, RSub(earlier_avg, R(10)))
                      THEN <<[kind |-> "temperature_decreasing",
                              earlier |-> earlier_avg, recent |-> recent_avg]>>
                      ELSE <<>>
             ELSE <<>>
    ELSE <<>>

\* the temperature trend (temps non-empty)
TemperatureTrends(temps) ==
    IF Len(temps) >= 3
    THEN LET recent_temps == LastK(temps, 3)
             earlier_temps == IF Len(temps) >= 6 THEN Take(temps, 3)
                              ELSE Take(temps, Len(temps) - 3)
         IN  IF earlier_temps # <<>>
             THEN LET recent_avg == Mean(recent_temps)
                      earlier_avg == Mean(earlier_temps)
                  IN  IF RGt(recent_avg, RAdd(earlier_avg, R(10)))
                      THEN <<[kind |-> "temperature_increasing",
                              earlier |-> earlier_avg, recent |-> recent_avg]>>
                      ELSE IF RLt(recent_avg, RSub(earlier_avg, R(10)))
                      THEN <<[kind |-> "temperature_decreasing",
                              earlier |-> earlier_avg, recent |-> recent_avg]>>
                      ELSE <<>>
             ELSE <<>>
    ELSE <<>>

\* mutant of LowHumidityDays: only days that also have a temperature
\* reading are kept
LowHumidityDays_with_temperature(obs) ==
    SelectSeq(obs, LAMBDA o : TruthyNum(o.relative_humidity_percent)
                              /\ Val(o.relative_humidity_percent) < OPTIMAL_HUMIDITY_MIN
                              /\ o.ambient_temperature_celsius # None)

\* low_humidity_days: the filter tests the reading's truth value first
LowHumidityDays(obs) ==
    SelectSeq(obs, LAMBDA o : TruthyNum(o.relative_humidity_percent)
                              /\ Val(o.relative_humidity_percent) < OPTIMAL_HUMIDITY_MIN)

\* one anomaly per low-humidity day, first 3 only
HumidityAnomalies(obs) ==
    LET low_humidity_days == LowHumidityDays(obs)
        first3 == Take(low_humidity_days, 3)
    IN  [i \in DOMAIN first3 |->
            [kind |-> "humidity_drop",
             value |-> Val(first3[i].relative_humidity_percent),
             date |-> first3[i].date]]

HumiditySuggestions(humidities) ==
    LET avg_humidity == Mean(humidities)
    IN  IF RLt(avg_humidity, R(OPTIMAL_HUMIDITY_MIN))
        THEN <<[kind |-> "humidity_increase", avg |-> avg_humidity]>>
        ELSE IF RGt(avg_humidity, R(OPTIMAL_HUMIDITY_MAX))
        THEN <<[kind |-> "humidity_reduce", avg |-> avg_humidity]>>
        ELSE <<>>

\* mutant of HumidityTrends: a rise of exactly 5 counts as a trend
HumidityTrends_ge(humidities) ==
    IF Len(humidities) >= 7
    THEN LET recent_avg == Mean(LastK(humidities, 7))
             earlier_avg == Mean(Take(humidities, 7))
         IN  IF ~RLt(recent_avg, RAdd(earlier_avg, R(50)))
             THEN <<[kind |-> "humidity_increasing",
                     earlier |-> earlier_avg, recent |-> recent_avg]>>
             ELSE IF RLt(recent_avg, RSub(earlier_avg, R(50)))
             THEN <<[kind |-> "humidity_decreasing",
                     earlier |-> earlier_avg, recent |-> recent_avg]>>
             ELSE <<>>
    ELSE <<>>

HumidityTrends(humidities) ==
    IF Len(humidities) >= 7
    THEN LET recent_avg == Mean(LastK(humidities, 7))
             earlier_avg == Mean(Take(humidities, 7))
         IN  IF RGt(recent_avg, RAdd(earlier_avg, R(50)))
             THEN <<[kind |-> "humidity_increasing",
                     earlier |-> earlier_avg, recent |-> recent_avg]>>
             ELSE IF RLt(recent_avg, RSub(earlier_avg, R(50)))
             THEN <<[kind |-> "humidity_decreasing",
                     earlier |-> earlier_avg, recent |-> recent_avg]>>
             ELSE <<>>
    ELSE <<>>

\* the loop of _check_consecutive_high_co2, its state being
\* <<max_consecutive, current_consecutive>>
RECURSIVE Co2Scan(_, _, _)
Co2Scan(obs, max_consecutive, current_consecutive) ==
    IF obs = <<>> THEN max_consecutive
    ELSE IF obs[1].CO2_level = Some("high")
    THEN LET cur == current_consecutive + 1
         IN  Co2Scan(Tail(obs), IF cur > max_consecutive THEN cur ELSE max_consecutive, cur)
    ELSE Co2Scan(Tail(obs), max_consecutive, 0)

\* mutant of _check_consecutive_high_co2: the run is never reset, every
\* 'high' reading counts
_check_consecutive_high_co2_no_reset(obs) ==
    LET max_consecutive == Len(SelectSeq(obs, LAMBDA o : o.CO2_level = Some("high")))
    IN  IF max_consecutive >= 5 THEN max_consecutive ELSE 0

_check_consecutive_high_co2(obs) ==
    LET max_consecutive == Co2Scan(obs, 0, 0)
    IN  IF max_consecutive >= 5 THEN max_consecutive ELSE 0

\* the CO2 block (co2_levels non-empty): anomalies and suggestions
Co2Analysis(obs, co2_levels) ==
    LET high_co2_count == Len(SelectSeq(co2_levels, LAMBDA level : level = "high"))
        consecutive_high == IF high_co2_count >= 5
                            THEN _check_consecutive_high_co2(obs) ELSE 0
        flagged == high_co2_count >= 5 /\ consecutive_high # 0
        acceptable == "low" \in Range(co2_levels) \/ "medium" \in Range(co2_levels)
    IN  [anomalies |-> IF flagged
                       THEN <<[kind |-> "co2_high", days |-> consecutive_high]>>
                       ELSE <<>>,
         suggestions |-> (IF flagged THEN <<[kind |-> "co2_ventilation"]>> ELSE <<>>)
                         \o (IF acceptable THEN <<[kind |-> "co2_acceptable"]>> ELSE <<>>)]

\* mutant of LightSuggestions: the in-range test written with < on both sides
LightSuggestions_strict(light_hours) ==
    LET avg_light == Mean(light_hours)
    IN  IF RLt(R(OPTIMAL_LIGHT_HOURS_MIN), avg_light)
           /\ RLt(avg_light, R(OPTIMAL_LIGHT_HOURS_MAX))
        THEN <<[kind |-> "light_optimal", avg |-> avg_light]>>
        ELSE IF RLt(avg_light, R(OPTIMAL_LIGHT_HOURS_MIN))
        THEN <<[kind |-> "light_below", avg |-> avg_light]>>
        ELSE <<[kind |-> "light_above", avg |-> avg_light]>>

LightSuggestions(light_hours) ==
    LET avg_light == Mean(light_hours)
    IN  IF RLe(R(OPTIMAL_LIGHT_HOURS_MIN), avg_light)
           /\ RLe(avg_light, R(OPTIMAL_LIGHT_HOURS_MAX))
        THEN <<[kind |-> "light_optimal", avg |-> avg_light]>>
        ELSE IF RLt(avg_light, R(OPTIMAL_LIGHT_HOURS_MIN))
        THEN <<[kind |-> "light_below", avg |-> avg_light]>>
        ELSE <<[kind |-> "light_above", avg |-> avg_light]>>

_analyze_observations(obs, batch) ==
    LET temps == TempsOf(obs)
        humidities == HumiditiesOf(obs)
        light_hours == LightHoursOf(obs)
        co2_levels == Co2LevelsOf(obs)
        co2 == IF co2_levels # <<>> THEN Co2Analysis(obs, co2_levels)
               ELSE [anomalies |-> <<>>, suggestions |-> <<>>]
    IN  [warnings |-> IF temps # <<>> THEN TemperatureWarnings(temps) ELSE <<>>,
         anomalies |-> (IF humidities # <<>> THEN HumidityAnomalies(obs) ELSE <<>>)
                       \o co2.anomalies,
         suggestions |-> (IF temps # <<>> THEN TemperatureSuggestions(temps) ELSE <<>>)
                         \o (IF humidities # <<>> THEN HumiditySuggestions(humidities) ELSE <<>>)
                         \o co2.suggestions
                         \o (IF light_hours # <<>> THEN LightSuggestions(light_hours) ELSE <<>>),
         trends |-> (IF temps # <<>> THEN TemperatureTrends(temps) ELSE <<>>)
                    \o (IF humidities # <<>> THEN HumidityTrends(humidities) ELSE <<>>)]

(***************************************************************************)
(* _analyze_harvests.  harvests is the batch's harvest rows ordered by     *)
(* flush number; all_harvests and all_batches are whole-table scans.       *)
(***************************************************************************)
YieldsOf(hs) == [i \in DOMAIN hs |-> hs[i].flush_yield_kg]

\* mutant of PeerFirstFlushYields: only the first peer row the scan delivers is kept
PeerFirstFlushYields_first_only(batch, all_harvests, all_batches) ==
    LET similar_batches == SelectSeq(all_batches,
                               LAMBDA b : b.substrate_type = batch.substrate_type)
        similar_batch_ids == {similar_batches[i].batch_id : i \in DOMAIN similar_batches}
        similar_harvests == SelectSeq(all_harvests,
                               LAMBDA h : h.batch_id \in similar_batch_ids)
    IN  Take(YieldsOf(SelectSeq(similar_harvests, LAMBDA h : h.flush_number = 1)), 1)

\* flush_yields[1]: first-flush yields of batches with the batch's substrate type
PeerFirstFlushYields(batch, all_harvests, all_batches) ==
    LET similar_batches == SelectSeq(all_batches,
                               LAMBDA b : b.substrate_type = batch.substrate_type)
        similar_batch_ids == {similar_batches[i].batch_id : i \in DOMAIN similar_batches}
        similar_harvests == SelectSeq(all_harvests,
                               LAMBDA h : h.batch_id \in similar_batch_ids)
    IN  YieldsOf(SelectSeq(similar_harvests, LAMBDA h : h.flush_number = 1))

\* mutant of FirstFlushWarnings: the test that the batch's first harvest is
\* flush 1 left out
FirstFlushWarnings_any_flush(hs, batch, all_harvests, all_batches) ==
    LET first_yields == PeerFirstFlushYields(batch, all_harvests, all_batches)
    IN  IF first_yields # <<>>
        THEN LET avg_first_flush == Mean(first_yields)
                 first_flush_yield == R(hs[1].flush_yield_kg)
             IN  IF RLt(first_flush_yield, RMul(<<7, 10>>, avg_first_flush))
                 THEN <<[kind |-> "early_underperformance",
                         first_flush_yield |-> first_flush_yield,
                         percentage_below |->
                             RMul(RDiv(RSub(avg_first_flush, first_flush_yield),
                                       avg_first_flush), R(100)),
                         avg_first_flush |-> avg_first_flush]>>
                 ELSE <<>>
        ELSE <<>>

\* compare first flush (hs non-empty)
FirstFlushWarnings(hs, batch, all_harvests, all_batches) ==
    LET first_yields == PeerFirstFlushYields(batch, all_harvests, all_batches)
    IN  IF first_yields # <<>> /\ hs[1].flush_number = 1
        THEN LET avg_first_flush == Mean(first_yields)
                 first_flush_yield == R(hs[1].flush_yield_kg)
             IN  IF RLt(first_flush_yield, RMul(<<7, 10>>, avg_first_flush))
                 THEN <<[kind |-> "early_underperformance",
                         first_flush_yield |-> first_flush_yield,
                         percentage_below |->
                             RMul(RDiv(RSub(avg_first_flush, first_flush_yield),
                                       avg_first_flush), R(100)),
                         avg_first_flush |-> avg_first_flush]>>
                 ELSE <<>>
        ELSE <<>>

\* mutant of ProgressionTrends: the decline test written <=
ProgressionTrends_le(hs) ==
    IF Len(hs) >= 2
    THEN LET yields == YieldsOf(hs)
         IN  IF RLe(R(yields[2]), RMul(R(yields[1]), <<5, 10>>))
             THEN <<[kind |-> "second_flush_decline",
                     second |-> yields[2], first |-> yields[1]]>>
             ELSE IF RGt(R(yields[2]), RMul(R(yields[1]), <<8, 10>>))
             THEN <<[kind |-> "second_flush_strong",
                     second |-> yields[2], first |-> yields[1]]>>
             ELSE <<>>
    ELSE <<>>

\* analyze flush progression
ProgressionTrends(hs) ==
    IF Len(hs) >= 2
    THEN LET yields == YieldsOf(hs)
         IN  IF RLt(R(yields[2]), RMul(R(yields[1]), <<5, 10>>))
             THEN <<[kind |-> "second_flush_decline",
                     second |-> yields[2], first |-> yields[1]]>>
             ELSE IF RGt(R(yields[2]), RMul(R(yields[1]), <<8, 10>>))
             THEN <<[kind |-> "second_flush_strong",
                     second |-> yields[2], first |-> yields[1]]>>
             ELSE <<>>
    ELSE <<>>

\* mutant of ProjectionTrends: the len(harvests) == 1 test left out
ProjectionTrends_any(hs) ==
    IF Len(hs) >= 1
    THEN LET first_flush == R(hs[1].flush_yield_kg)
             projected_second == RMul(first_flush, <<65, 100>>)
             projected_total == RAdd(RAdd(first_flush, projected_second),
                                     RMul(projected_second, <<6, 10>>))
         IN  <<[kind |-> "projection_second_flush",
                first |-> first_flush,
                lo |-> projected_second,
                hi |-> RMul(first_flush, <<8, 10>>)],
               [kind |-> "projection_total",
                lo |-> projected_total,
                hi |-> RMul(projected_total, <<12, 10>>)]>>
    ELSE <<>>

\* project future yields
ProjectionTrends(hs) ==
    IF Len(hs) >= 1 /\ Len(hs) = 1
    THEN LET first_flush == R(hs[1].flush_yield_kg)
             projected_second == RMul(first_flush, <<65, 100>>)
             projected_total == RAdd(RAdd(first_flush, projected_second),
                                     RMul(projected_second, <<6, 10>>))
         IN  <<[kind |-> "projection_second_flush",
                first |-> first_flush,
                lo |-> projected_second,
                hi |-> RMul(first_flush, <<8, 10>>)],
               [kind |-> "projection_total",
                lo |-> projected_total,
                hi |-> RMul(projected_total, <<12, 10>>)]>>
    ELSE <<>>

\* mutant of _analyze_harvests: no early return, and the projection made from
\* total_yield whenever fewer than 2 harvests are recorded
_analyze_harvests_no_guard(hs, batch, all_harvests, all_batches) ==
    LET total_yield == R(SeqSum(YieldsOf(hs)))
        projected_second == RMul(total_yield, <<65, 100>>)
        projected_total == RAdd(RAdd(total_yield, projected_second),
                                RMul(projected_second, <<6, 10>>))
    IN  [warnings |-> IF hs # <<>>
                      THEN FirstFlushWarnings(hs, batch, all_harvests, all_batches)
                      ELSE <<>>,
         suggestions |-> <<>>,
         trends |-> ProgressionTrends(hs)
                    \o (IF Len(hs) < 2
                        THEN <<[kind |-> "projection_second_flush",
                                first |-> total_yield,
                                lo |-> projected_second,
                                hi |-> RMul(total_yield, <<8, 10>>)],
                               [kind |-> "projection_total",
                                lo |-> projected_total,
                                hi |-> RMul(projected_total, <<12, 10>>)]>>
                        ELSE <<>>)]

_analyze_harvests(hs, batch, all_harvests, all_batches) ==
    IF hs = <<>>
    THEN [warnings |-> <<>>, suggestions |-> <<>>, trends |-> <<>>]
    ELSE [warnings |-> FirstFlushWarnings(hs, batch, all_harvests, all_batches),
          suggestions |-> <<>>,
          trends |-> ProgressionTrends(hs) \o ProjectionTrends(hs)]

(***************************************************************************)
(* _generate_summary.  The summary string is the list summary_parts, one   *)
(* record per clause, joined by ". ".                                      *)
(***************************************************************************)
\* "humidity" in s.lower() or "temperature" in s.lower(), by the literal texts
MentionsHumidityOrTemperature(s) ==
    s.kind \in {"temperature_below", "temperature_above", "temperature_optimal",
                "humidity_increase", "humidity_reduce"}

SummaryMetrics(obs) ==
    IF obs # <<>>
    THEN LET temps == TempsOf(obs)
             humidities == HumiditiesOf(obs)
         IN  (IF temps # <<>>
              THEN <<[kind |-> "average_temperature", avg |-> Mean(temps)]>> ELSE <<>>)
             \o (IF humidities # <<>>
                 THEN <<[kind |-> "average_humidity", avg |-> Mean(humidities)]>> ELSE <<>>)
    ELSE <<>>

SummaryYield(hs) ==
    IF hs # <<>>
    THEN <<[kind |-> "current_yield", total_yield |-> SeqSum(YieldsOf(hs)),
            flushes |-> Len(hs)]>>
    ELSE <<>>

SummaryConcerns(warnings, anomalies) ==
    IF warnings # <<>> \/ anomalies # <<>>
    THEN <<[kind |-> "main_concerns"]>>
         \o (IF warnings # <<>>
             THEN <<[kind |-> "concern", lower |-> warnings[1]]>> ELSE <<>>)
         \o (IF anomalies # <<>>
             THEN <<[kind |-> "concern", lower |-> anomalies[1]]>> ELSE <<>>)
    ELSE <<[kind |-> "stable_conditions"]>>

\* mutant of SummaryRecommendation: the search for a humidity or temperature
\* suggestion left out
SummaryRecommendation_first(suggestions) ==
    IF suggestions # <<>>
    THEN <<[kind |-> "key_recommendation", suggestion |-> suggestions[1]]>>
    ELSE <<>>

SummaryRecommendation(suggestions) ==
    IF suggestions # <<>>
    THEN LET hits == SelectSeq(suggestions, MentionsHumidityOrTemperature)
             key_suggestion == IF hits # <<>> THEN hits[1] ELSE suggestions[1]
         IN  <<[kind |-> "key_recommendation", suggestion |-> key_suggestion]>>
    ELSE <<>>

\* mutant of SummaryProjection: the factor 2.04 of the harvest trends instead of 2.5
SummaryProjection_204(hs) ==
    IF hs # <<>> /\ Len(hs) = 1
    THEN LET first_flush == R(hs[1].flush_yield_kg)
             projected == RMul(first_flush, <<204, 100>>)
         IN  <<[kind |-> "projected_total",
                lo |-> projected, hi |-> RMul(projected, <<12, 10>>)]>>
    ELSE <<>>

SummaryProjection(hs) ==
    IF hs # <<>> /\ Len(hs) = 1
    THEN LET first_flush == R(hs[1].flush_yield_kg)
             projected == RMul(first_flush, <<25, 10>>)
         IN  <<[kind |-> "projected_total",
                lo |-> projected, hi |-> RMul(projected, <<12, 10>>)]>>
    ELSE <<>>

\* mutant of _generate_summary: the early return for a batch without data
\* left out
_generate_summary_always_full(batch, obs, hs, warnings, anomalies, suggestions) ==
    <<[kind |-> "batch", batch_id |-> batch.batch_id],
      [kind |-> "substrate", substrate_type |-> batch.substrate_type]>>
    \o SummaryMetrics(obs)
    \o SummaryYield(hs)
    \o SummaryConcerns(warnings, anomalies)
    \o SummaryRecommendation(suggestions)
    \o SummaryProjection(hs)

_generate_summary(batch, obs, hs, warnings, anomalies, suggestions) ==
    IF obs = <<>> /\ hs = <<>>
    THEN <<[kind |-> "no_data_yet", batch_id |-> batch.batch_id]>>
    ELSE <<[kind |-> "batch", batch_id |-> batch.batch_id],
           [kind |-> "substrate", substrate_type |-> batch.substrate_type]>>
         \o SummaryMetrics(obs)
         \o SummaryYield(hs)
         \o SummaryConcerns(warnings, anomalies)
         \o SummaryRecommendation(suggestions)
         \o SummaryProjection(hs)

(***************************************************************************)
(* The database session.  A query without ORDER BY returns the rows of a   *)
(* table in an order SQL leaves open: db is one enumeration of each table. *)
(***************************************************************************)
\* Observations are only ever read filtered by batch_id, so only the order
\* within a batch can show: the enumerations taken keep the batches apart.
ObservationScans ==
    {o \in Perms(observations) :
        \A i, j \in DOMAIN o : i < j => o[i].batch_id <= o[j].batch_id}

\* generate_insights reads the whole harvest table (all_harvests)
DbViews ==
    {[batches |-> b, observations |-> o, harvests |-> h] :
        b \in Perms(batches), o \in ObservationScans, h \in Perms(harvests)}

\* compare_batches reads harvests filtered by batch_id only
HarvestScans ==
    {h \in Perms(harvests) :
        \A i, j \in DOMAIN h : i < j => h[i].batch_id <= h[j].batch_id}

CompareViews ==
    {[batches |-> b, observations |-> o, harvests |-> h] :
        b \in Perms(batches), o \in ObservationScans, h \in HarvestScans}

\* db.query(models.Batch).filter(batch_id == id).first(): <<>> stands for None
QueryBatch(db, id) == Take(SelectSeq(db.batches, LAMBDA b : b.batch_id = id), 1)

QueryObservations(db, id) == SelectSeq(db.observations, LAMBDA o : o.batch_id = id)

QueryHarvests(db, id) == SelectSeq(db.harvests, LAMBDA h : h.batch_id = id)

(***************************************************************************)
(* generate_insights.  result is the returned dict, queries the number of  *)
(* db.query calls issued.                                                  *)
(***************************************************************************)
generate_insights(batch_id, db) ==
    LET found == QueryBatch(db, batch_id)
    IN  IF found = <<>>
        THEN [result |-> [warnings |-> <<>>, anomalies |-> <<>>, suggestions |-> <<>>,
                          trends |-> <<>>, summary |-> <<[kind |-> "batch_not_found"]>>],
              queries |-> 1]
        ELSE
        LET batch == found[1]
            obs == SortBy(QueryObservations(db, batch_id), LAMBDA o : o.date)
            hs == SortBy(QueryHarvests(db, batch_id), LAMBDA h : h.flush_number)
            all_batches == db.batches
            all_harvests == db.harvests
            obs_analysis == IF obs # <<>> THEN _analyze_observations(obs, batch)
                            ELSE [warnings |-> <<>>, anomalies |-> <<>>,
                                  suggestions |-> <<>>, trends |-> <<>>]
            harvest_analysis == IF hs # <<>>
                                THEN _analyze_harvests(hs, batch, all_harvests, all_batches)
                                ELSE [warnings |-> <<>>, suggestions |-> <<>>, trends |-> <<>>]
            warnings == obs_analysis.warnings \o harvest_analysis.warnings
            anomalies == obs_analysis.anomalies
            suggestions == obs_analysis.suggestions \o harvest_analysis.suggestions
            trends == obs_analysis.trends \o harvest_analysis.trends
        IN  [result |-> [warnings |-> warnings, anomalies |-> anomalies,
                         suggestions |-> suggestions, trends |-> trends,
                         summary |-> _generate_summary(batch, obs, hs, warnings,
                                                       anomalies, suggestions)],
             queries |-> 6]

(***************************************************************************)
(* compare_batches.                                                        *)
(***************************************************************************)
\* round(avg, 1) of a rational number of tenths.  A mean exactly halfway
\* between two tenths goes up or down with the binary value of the float:
\* tie (0 or 1) is the direction taken.
Round1(avg, tie) ==
    LET lo == avg[1] \div avg[2]
        rem2 == 2 * (avg[1] - lo * avg[2])
    IN  IF rem2 < avg[2] THEN lo
        ELSE IF rem2 > avg[2] THEN lo + 1
        ELSE lo + tie

\* a mean that lies halfway between two tenths
HalfwayMean(values) == values # <<>> /\ Mean(values)[2] = 2

\* the directions a call of compare_batches can round its halfway means in
TieChoices(db) ==
    IF \E i \in DOMAIN db.batches :
          LET obs == SelectSeq(db.observations,
                               LAMBDA o : o.batch_id = db.batches[i].batch_id)
          IN  HalfwayMean(TempsOf(obs)) \/ HalfwayMean(HumiditiesOf(obs))
    THEN {0, 1}
    ELSE {0}

\* the batches the IN query resolves, in scan order
ResolvedBatches(batch_ids, db) ==
    SelectSeq(db.batches, LAMBDA b : b.batch_id \in Range(batch_ids))

\* mutant of CompareFailure: the length test written < 1
CompareFailure_lt1(batch_ids, db) ==
    IF Len(batch_ids) < 1
    THEN <<[result |-> [yield_comparison |-> <<>>, average_conditions |-> <<>>,
                        insights |-> <<[kind |-> "at_least_2_required"]>>],
            queries |-> 0]>>
    ELSE LET bs == ResolvedBatches(batch_ids, db)
         IN  IF Len(bs) # Len(batch_ids)
             THEN LET missing == Range(batch_ids) \ {bs[i].batch_id : i \in DOMAIN bs}
                  IN  <<[result |-> [yield_comparison |-> <<>>,
                                     average_conditions |-> <<>>,
                                     insights |-> <<[kind |-> "not_found",
                                                     missing |-> missing]>>],
                         queries |-> 1]>>
             ELSE <<>>

\* the early returns of compare_batches: <<>> when the comparison goes ahead
CompareFailure(batch_ids, db) ==
    IF Len(batch_ids) < 2
    THEN <<[result |-> [yield_comparison |-> <<>>, average_conditions |-> <<>>,
                        insights |-> <<[kind |-> "at_least_2_required"]>>],
            queries |-> 0]>>
    ELSE LET bs == ResolvedBatches(batch_ids, db)
         IN  IF Len(bs) # Len(batch_ids)
             THEN LET missing == Range(batch_ids) \ {bs[i].batch_id : i \in DOMAIN bs}
                  IN  <<[result |-> [yield_comparison |-> <<>>,
                                     average_conditions |-> <<>>,
                                     insights |-> <<[kind |-> "not_found",
                                                     missing |-> missing]>>],
                         queries |-> 1]>>
             ELSE <<>>

YieldComparison(bs, db) ==
    [i \in DOMAIN bs |->
        LET hs == QueryHarvests(db, bs[i].batch_id)
        IN  [batch_id |-> bs[i].batch_id,
             total_yield |-> IF hs # <<>> THEN SeqSum(YieldsOf(hs)) ELSE 0,
             flushes |-> Len(hs)]]

\* round(avg, 1) if avg else None
RoundedOrNone(values, tie) ==
    IF values # <<>> /\ Mean(values)[1] # 0 THEN Some(Round1(Mean(values), tie)) ELSE None

AverageConditions(bs, db, tie) ==
    [i \in DOMAIN bs |->
        LET obs == QueryObservations(db, bs[i].batch_id)
        IN  [batch_id |-> bs[i].batch_id,
             avg_temperature |-> RoundedOrNone(TempsOf(obs), tie),
             avg_humidity |-> RoundedOrNone(HumiditiesOf(obs), tie),
             substrate_type |-> bs[i].substrate_type]]

\* next((c["substrate_type"] for c in average_conditions if ...), "Unknown")
SubstrateOf(average_conditions, id) ==
    LET hits == SelectSeq(average_conditions, LAMBDA c : c.batch_id = id)
    IN  IF hits # <<>> THEN hits[1].substrate_type ELSE "Unknown"

\* mutant of YieldInsights: the percentage taken relative to the best total
YieldInsights_of_best(yield_comparison, average_conditions) ==
    LET yields_sorted == SortBy(yield_comparison, LAMBDA y : 0 - y.total_yield)
        best == yields_sorted[1]
        worst == yields_sorted[Len(yields_sorted)]
    IN  IF best.total_yield > 0 /\ worst.total_yield > 0
        THEN <<[kind |-> "outperformed",
                best |-> best.batch_id,
                best_substrate |-> SubstrateOf(average_conditions, best.batch_id),
                worst |-> worst.batch_id,
                worst_substrate |-> SubstrateOf(average_conditions, worst.batch_id),
                percentage_diff |->
                    RMul(RDiv(R(best.total_yield - worst.total_yield),
                              R(best.total_yield)), R(100))]>>
        ELSE <<>>

YieldInsights(yield_comparison, average_conditions) ==
    LET yields_sorted == SortBy(yield_comparison, LAMBDA y : 0 - y.total_yield)
        best == yields_sorted[1]
        worst == yields_sorted[Len(yields_sorted)]
    IN  IF best.total_yield > 0 /\ worst.total_yield > 0
        THEN <<[kind |-> "outperformed",
                best |-> best.batch_id,
                best_substrate |-> SubstrateOf(average_conditions, best.batch_id),
                worst |-> worst.batch_id,
                worst_substrate |-> SubstrateOf(average_conditions, worst.batch_id),
                percentage_diff |->
                    RMul(RDiv(R(best.total_yield - worst.total_yield),
                              R(worst.total_yield)), R(100))]>>
        ELSE <<>>

HumidityInsights(average_conditions) ==
    IF Len(average_conditions) >= 2
    THEN LET hum_sorted == SortBy(SelectSeq(average_conditions,
                                      LAMBDA c : TruthyNum(c.avg_humidity)),
                                  LAMBDA c : 0 - Val(c.avg_humidity))
         IN  IF Len(hum_sorted) >= 2
             THEN <<[kind |-> "higher_humidity_better_yields",
                     high |-> Val(hum_sorted[1].avg_humidity),
                     low |-> Val(hum_sorted[Len(hum_sorted)].avg_humidity)]>>
             ELSE <<>>
    ELSE <<>>

\* mutant of TempVars: a batch with a single reading is taken too
TempVars_any_reading(bs, db) ==
    LET with_temps == SelectSeq(bs,
                          LAMBDA b : Len(TempsOf(QueryObservations(db, b.batch_id))) > 0)
    IN  [i \in DOMAIN with_temps |->
            LET temps == TempsOf(QueryObservations(db, with_temps[i].batch_id))
            IN  [batch_id |-> with_temps[i].batch_id,
                 variance |-> SeqMax(temps) - SeqMin(temps)]]

TempVars(bs, db) ==
    LET with_temps == SelectSeq(bs,
                          LAMBDA b : Len(TempsOf(QueryObservations(db, b.batch_id))) > 1)
    IN  [i \in DOMAIN with_temps |->
            LET temps == TempsOf(QueryObservations(db, with_temps[i].batch_id))
            IN  [batch_id |-> with_temps[i].batch_id,
                 variance |-> SeqMax(temps) - SeqMin(temps)]]

StabilityInsights(bs, db) ==
    LET temp_vars == TempVars(bs, db)
    IN  IF Len(temp_vars) >= 2
        THEN LET stable == SortBy(temp_vars, LAMBDA v : v.variance)[1]
             IN  <<[kind |-> "lower_temperature_variance",
                    batch_id |-> stable.batch_id, variance |-> stable.variance]>>
        ELSE <<>>

compare_batches(batch_ids, db, tie) ==
    LET failure == CompareFailure(batch_ids, db)
    IN  IF failure # <<>> THEN failure[1]
        ELSE
        LET bs == ResolvedBatches(batch_ids, db)
            yield_comparison == YieldComparison(bs, db)
            average_conditions == AverageConditions(bs, db, tie)
            insights == IF Len(yield_comparison) >= 2
                        THEN YieldInsights(yield_comparison, average_conditions)
                             \o HumidityInsights(average_conditions)
                             \o StabilityInsights(bs, db)
                        ELSE <<>>
        IN  [result |-> [yield_comparison |-> yield_comparison,
                         average_conditions |-> average_conditions,
                         insights |-> insights],
             queries |-> 1 + 2 * Len(bs) + (IF Len(yield_comparison) >= 2 THEN Len(bs) ELSE 0)]

(***************************************************************************)
(* The routes that write the store.  Requests have passed the pydantic     *)
(* schema; fields_set is the set of optional fields the request body       *)
(* gave explicitly (what dict(exclude_unset=True) keeps).                  *)
(***************************************************************************)
\* rowid of the next inserted row
NextId(ids) == IF ids = {} THEN 1 ELSE (CHOOSE m \in ids : \A i \in ids : i <= m) + 1

\* func.current_date(), the server default of Harvest.date
Today == 1

BatchIds == {b.batch_id : b \in batches}

BatchRequests ==
    {[username |-> "john_doe", substrate_type |-> "Straw",
      substrate_moisture_percent |-> 600, spawn_rate_percent |-> 50, start_date |-> 1]}

\* an optional request field: left out, or given with a value
Unset == [set |-> FALSE, value |-> None]
Given(v) == [set |-> TRUE, value |-> v]

ObsFieldNames == {"ambient_temperature_celsius", "relative_humidity_percent",
                  "CO2_level", "light_hours_per_day"}

MakeObsRequest(d, t, h, c, l) ==
    [date |-> d,
     ambient_temperature_celsius |-> t.value,
     relative_humidity_percent |-> h.value,
     CO2_level |-> c.value,
     light_hours_per_day |-> l.value,
     fields_set |-> {f \in ObsFieldNames :
                        \/ f = "ambient_temperature_celsius" /\ t.set
                        \/ f = "relative_humidity_percent" /\ h.set
                        \/ f = "CO2_level" /\ c.set
                        \/ f = "light_hours_per_day" /\ l.set}]

ObsRequests ==
    {MakeObsRequest(d, t, h, Unset, Unset) :
        d \in 1..MaxDate,
        t \in {Unset, Given(Some(200))},
        h \in {Unset}}

MakeHarvestRequest(f, y, t, d) ==
    [flush_number |-> f, flush_yield_kg |-> y,
     total_batch_yield_kg |-> t.value, date |-> d.value,
     fields_set |-> {n \in {"total_batch_yield_kg", "date"} :
                        \/ n = "total_batch_yield_kg" /\ t.set
                        \/ n = "date" /\ d.set}]

HarvestRequests ==
    {MakeHarvestRequest(f, y, Unset, Unset) : f \in 1..MaxFlush, y \in {10, 20}}

\* create_batch
create_batch(batch) ==
    /\ Cardinality(batches) < MaxBatches
    /\ batches' = batches \cup
           {[batch_id |-> NextId(BatchIds),
             username |-> batch.username,
             substrate_type |-> batch.substrate_type,
             substrate_moisture_percent |-> batch.substrate_moisture_percent,
             spawn_rate_percent |-> batch.spawn_rate_percent,
             start_date |-> batch.start_date]}
    /\ op' = "create_batch"
    /\ args' = <<>>
    /\ ret' = [status |-> 201, body |-> NextId(BatchIds)]
    /\ queries' = 0
    /\ UNCHANGED <<observations, harvests>>

\* mutant of UpdatedObservation: obs.dict() without exclude_unset, so omitted
\* fields are written as None
UpdatedObservation_all_fields(row, obs) ==
    [row EXCEPT
        !.date = obs.date,
        !.ambient_temperature_celsius = obs.ambient_temperature_celsius,
        !.relative_humidity_percent = obs.relative_humidity_percent,
        !.CO2_level = obs.CO2_level,
        !.light_hours_per_day = obs.light_hours_per_day]

\* for key, value in obs.dict(exclude_unset=True).items(): setattr(existing_obs, key, value)
UpdatedObservation(row, obs) ==
    [row EXCEPT
        !.date = obs.date,
        !.ambient_temperature_celsius =
            IF "ambient_temperature_celsius" \in obs.fields_set
            THEN obs.ambient_temperature_celsius ELSE @,
        !.relative_humidity_percent =
            IF "relative_humidity_percent" \in obs.fields_set
            THEN obs.relative_humidity_percent ELSE @,
        !.CO2_level = IF "CO2_level" \in obs.fields_set THEN obs.CO2_level ELSE @,
        !.light_hours_per_day =
            IF "light_hours_per_day" \in obs.fields_set
            THEN obs.light_hours_per_day ELSE @]

\* models.DailyObservation(batch_id=batch_id, **obs.dict())
NewObservation(batch_id, obs) ==
    [observation_id |-> NextId({o.observation_id : o \in observations}),
     batch_id |-> batch_id,
     date |-> obs.date,
     ambient_temperature_celsius |-> obs.ambient_temperature_celsius,
     relative_humidity_percent |-> obs.relative_humidity_percent,
     CO2_level |-> obs.CO2_level,
     light_hours_per_day |-> obs.light_hours_per_day]

\* the rows the existence check of create_or_update_observation finds
ExistingObservations(batch_id, obs) ==
    {o \in observations : o.batch_id = batch_id /\ o.date = obs.date}

\* mutant of ViolatesUqBatchDate: a table made without uq_batch_date
ViolatesUqBatchDate_unconstrained(row) == FALSE

\* UniqueConstraint uq_batch_date: the INSERT is refused when the key is taken
ViolatesUqBatchDate(row) ==
    \E o \in observations : o.batch_id = row.batch_id /\ o.date = row.date

\* mutant of create_or_update_observation: a plain create, no lookup of the
\* key, on a table made without uq_batch_date
create_or_update_observation_insert_only(batch_id, obs) ==
    /\ op' = "create_or_update_observation"
    /\ args' = [batch_id |-> batch_id, obs |-> obs]
    /\ UNCHANGED <<batches, harvests>>
    /\ IF batch_id \notin BatchIds
       THEN /\ ret' = [status |-> 404, body |-> 0]
            /\ queries' = 1
            /\ UNCHANGED observations
       ELSE LET db_obs == NewObservation(batch_id, obs)
            IN  /\ queries' = 1
                /\ Cardinality(observations) + Cardinality(harvests) < MaxRows
                /\ observations' = observations \cup {db_obs}
                /\ ret' = [status |-> 201, body |-> db_obs.observation_id]

\* create_or_update_observation
create_or_update_observation(batch_id, obs) ==
    /\ op' = "create_or_update_observation"
    /\ args' = [batch_id |-> batch_id, obs |-> obs]
    /\ UNCHANGED <<batches, harvests>>
    /\ IF batch_id \notin BatchIds
       THEN /\ ret' = [status |-> 404, body |-> 0]
            /\ queries' = 1
            /\ UNCHANGED observations
       ELSE /\ queries' = 2
            /\ IF ExistingObservations(batch_id, obs) # {}
               THEN \E existing_obs \in ExistingObservations(batch_id, obs) :
                       /\ observations' = (observations \ {existing_obs})
                              \cup {UpdatedObservation(existing_obs, obs)}
                       /\ ret' = [status |-> 201, body |-> existing_obs.observation_id]
               ELSE LET db_obs == NewObservation(batch_id, obs)
                    IN  IF ViolatesUqBatchDate(db_obs)
                        THEN /\ ret' = [status |-> 400, body |-> 0]
                             /\ UNCHANGED observations
                        ELSE /\ Cardinality(observations) + Cardinality(harvests) < MaxRows
                             /\ observations' = observations \cup {db_obs}
                             /\ ret' = [status |-> 201, body |-> db_obs.observation_id]

UpdatedHarvest(row, harvest) ==
    [row EXCEPT
        !.flush_number = harvest.flush_number,
        !.flush_yield_kg = harvest.flush_yield_kg,
        !.total_batch_yield_kg =
            IF "total_batch_yield_kg" \in harvest.fields_set
            THEN harvest.total_batch_yield_kg ELSE @,
        !.date = IF "date" \in harvest.fields_set THEN harvest.date ELSE @]

\* models.Harvest(batch_id=batch_id, **harvest.dict()); a date of None takes the server default
NewHarvest(batch_id, harvest) ==
    [harvest_id |-> NextId({h.harvest_id : h \in harvests}),
     batch_id |-> batch_id,
     flush_number |-> harvest.flush_number,
     flush_yield_kg |-> harvest.flush_yield_kg,
     total_batch_yield_kg |-> harvest.total_batch_yield_kg,
     date |-> IF harvest.date = None THEN Some(Today) ELSE harvest.date]

ExistingHarvests(batch_id, harvest) ==
    {h \in harvests : h.batch_id = batch_id /\ h.flush_number = harvest.flush_number}

\* UniqueConstraint uq_batch_flush
ViolatesUqBatchFlush(row) ==
    \E h \in harvests : h.batch_id = row.batch_id /\ h.flush_number = row.flush_number

\* create_or_update_harvest
create_or_update_harvest(batch_id, harvest) ==
    /\ op' = "create_or_update_harvest"
    /\ args' = [batch_id |-> batch_id, harvest |-> harvest]
    /\ UNCHANGED <<batches, observations>>
    /\ IF batch_id \notin BatchIds
       THEN /\ ret' = [status |-> 404, body |-> 0]
            /\ queries' = 1
            /\ UNCHANGED harvests
       ELSE /\ queries' = 2
            /\ IF ExistingHarvests(batch_id, harvest) # {}
               THEN \E existing_harvest \in ExistingHarvests(batch_id, harvest) :
                       /\ harvests' = (harvests \ {existing_harvest})
                              \cup {UpdatedHarvest(existing_harvest, harvest)}
                       /\ ret' = [status |-> 201, body |-> existing_harvest.harvest_id]
               ELSE LET db_harvest == NewHarvest(batch_id, harvest)
                    IN  IF ViolatesUqBatchFlush(db_harvest)
                        THEN /\ ret' = [status |-> 400, body |-> 0]
                             /\ UNCHANGED harvests
                        ELSE /\ Cardinality(observations) + Cardinality(harvests) < MaxRows
                             /\ harvests' = harvests \cup {db_harvest}
                             /\ ret' = [status |-> 201, body |-> db_harvest.harvest_id]

(***************************************************************************)
(* Calls of the insight engine on the store: get_batch_insights and the    *)
(* compare route pass the session to generate_insights and                 *)
(* compare_batches.                                                        *)
(***************************************************************************)
\* mutant of CallGenerateInsights: the computed total is written back to the
\* batch's harvest rows
CallGenerateInsights_persisting(batch_id) ==
    /\ op = "init"
    /\ \E db \in DbViews :
        LET r == generate_insights(batch_id, db)
            total == SeqSum(YieldsOf(QueryHarvests(db, batch_id)))
        IN  /\ op' = "generate_insights"
            /\ args' = [batch_id |-> batch_id]
            /\ ret' = r.result
            /\ queries' = r.queries
            /\ harvests' = {IF h.batch_id = batch_id
                            THEN [h EXCEPT !.total_batch_yield_kg = Some(total)]
                            ELSE h : h \in harvests}
            /\ UNCHANGED <<batches, observations>>

CallGenerateInsights(batch_id) ==
    /\ op = "init"
    /\ \E db \in DbViews :
        LET r == generate_insights(batch_id, db)
        IN  /\ op' = "generate_insights"
            /\ args' = [batch_id |-> batch_id]
            /\ ret' = r.result
            /\ queries' = r.queries
            /\ UNCHANGED store

IdLists == UNION {[1..n -> 1..(MaxBatches + 1)] : n \in 0..MaxIds}

CallCompareBatches(batch_ids) ==
    /\ op = "init"
    /\ \E db \in CompareViews :
      \E tie \in TieChoices(db) :
        LET r == compare_batches(batch_ids, db, tie)
        IN  /\ op' = "compare_batches"
            /\ args' = [batch_ids |-> batch_ids]
            /\ ret' = r.result
            /\ queries' = r.queries
            /\ UNCHANGED store

Init ==
    /\ batches = {}
    /\ observations = {}
    /\ harvests = {}
    /\ op = "init"
    /\ args = <<>>
    /\ ret = <<>>
    /\ queries = 0

Next ==
    \/ \E batch \in BatchRequests : create_batch(batch)
    \/ \E batch_id \in 1..(MaxBatches + 1), obs \in ObsRequests :
          create_or_update_observation(batch_id, obs)
    \/ \E batch_id \in 1..(MaxBatches + 1), harvest \in HarvestRequests :
          create_or_update_harvest(batch_id, harvest)

Spec == Init /\ [][Next]_vars

(***************************************************************************)
(* The engine on a stored data set.  The initial state is a store the      *)
(* routes can have built: batches 1..n, each with a substrate type, the    *)
(* yields of its flushes 1..k and the temperatures of its dates 1..m.      *)
(* Each behaviour is one call of the engine on the store drawn.            *)
(***************************************************************************)
BatchRow(id, st) ==
    [batch_id |-> id, username |-> "john_doe", substrate_type |-> st,
     substrate_moisture_percent |-> 600, spawn_rate_percent |-> 50, start_date |-> 1]

ObservationRow(id, b, d, t, h) ==
    [observation_id |-> id, batch_id |-> b, date |-> d,
     ambient_temperature_celsius |-> t, relative_humidity_percent |-> h,
     CO2_level |-> None, light_hours_per_day |-> None]

HarvestRow(id, b, f, y) ==
    [harvest_id |-> id, batch_id |-> b, flush_number |-> f, flush_yield_kg |-> y,
     total_batch_yield_kg |-> None, date |-> Some(Today)]

BatchProfiles ==
    {[substrate_type |-> st, yields |-> ys, temps |-> ts] :
        st \in {"Straw", "Sawdust"},
        ys \in {<<>>, <<10>>, <<20>>},
        ts \in {<<>>, <<200>>}}

\* rows of the batches before batch i: the rowids already taken
YieldsBefore(f, i) == SeqSum([j \in 1..(i - 1) |-> Len(f[j].yields)])
TempsBefore(f, i) == SeqSum([j \in 1..(i - 1) |-> Len(f[j].temps)])

InitEngine ==
    /\ \E n \in 0..MaxBatches :
          \E f \in [1..n -> BatchProfiles] :
             /\ batches = {BatchRow(i, f[i].substrate_type) : i \in 1..n}
             /\ harvests =
                   UNION {{HarvestRow(YieldsBefore(f, i) + k, i, k, f[i].yields[k]) :
                              k \in DOMAIN f[i].yields} : i \in 1..n}
             /\ observations =
                   UNION {{ObservationRow(TempsBefore(f, i) + d, i, d,
                                          Some(f[i].temps[d]), None) :
                              d \in DOMAIN f[i].temps} : i \in 1..n}
    /\ op = "init"
    /\ args = <<>>
    /\ ret = <<>>
    /\ queries = 0

NextEngine ==
    \/ \E batch_id \in 1..(MaxBatches + 1) : CallGenerateInsights(batch_id)
    \/ \E batch_ids \in IdLists : CallCompareBatches(batch_ids)

SpecEngine == InitEngine /\ [][NextEngine]_vars

(***************************************************************************)
(* Direct calls of the engine's helper functions.  Each specification      *)
(* draws the arguments of one helper in its initial state and applies it.  *)
(***************************************************************************)
EmptyStore ==
    /\ batches = {}
    /\ observations = {}
    /\ harvests = {}
    /\ queries = 0

StrawBatch == BatchRow(1, "Straw")

PeerBatch(st) == BatchRow(2, st)

\* observation lists of one batch, in date order: temperature and humidity vary
ObsRow(d, t, h) == ObservationRow(d, 1, d, t, h)

TempInputs == {None, Some(200), Some(250), Some(251)}
HumInputs == {None, Some(0), Some(799), Some(800)}

\* the list of n rows whose readings are f[1], ..., f[n]
ObsList(n, f) == [d \in 1..n |-> ObsRow(d, f[d][1], f[d][2])]

InitObs ==
    /\ EmptyStore
    /\ op = "init"
    /\ \E n \in 0..MaxObs :
          \E f \in [1..n -> TempInputs \X HumInputs] :
             args = [observations |-> ObsList(n, f), batch |-> StrawBatch]
    /\ ret = <<>>

Call_analyze_observations ==
    /\ op = "init"
    /\ op' = "_analyze_observations"
    /\ ret' = _analyze_observations(args.observations, args.batch)
    /\ UNCHANGED <<store, args, queries>>

NextObs == Call_analyze_observations

SpecObs == InitObs /\ [][NextObs]_vars

\* the k-th smallest element of a set of numbers
RECURSIVE Kth(_, _)
Kth(S, k) ==
    LET m == CHOOSE x \in S : \A y \in S : x <= y
    IN  IF k = 1 THEN m ELSE Kth(S \ {m}, k - 1)

\* flush_yield_kg: float, ge=0
YieldInputs == {0, 8, 10, 20}

\* harvest lists of batch 1, in flush order, with the flush numbers fs
HarvestInputs ==
    UNION {{[i \in 1..Cardinality(fs) |-> HarvestRow(i, 1, Kth(fs, i), y[Kth(fs, i)])] :
               y \in [fs -> YieldInputs]} :
           fs \in {F \in SUBSET (1..(MaxFlush + 1)) : Cardinality(F) <= MaxHarvests}}

\* the harvests of the peer batch: none, or a first flush
PeerHarvestInputs == {<<>>} \cup {<<HarvestRow(9, 2, 1, y)>> : y \in {10, 40}}

InitHarvests ==
    /\ EmptyStore
    /\ op = "init"
    /\ args \in {[harvests |-> hs, batch |-> StrawBatch,
                  all_harvests |-> hs \o ph,
                  all_batches |-> <<StrawBatch, PeerBatch(st)>>] :
                    hs \in HarvestInputs, ph \in PeerHarvestInputs,
                    st \in {"Straw", "Sawdust"}}
    /\ ret = <<>>

Call_analyze_harvests ==
    /\ op = "init"
    /\ op' = "_analyze_harvests"
    /\ ret' = _analyze_harvests(args.harvests, args.batch,
                                args.all_harvests, args.all_batches)
    /\ UNCHANGED <<store, args, queries>>

NextHarvests == Call_analyze_harvests

SpecHarvests == InitHarvests /\ [][NextHarvests]_vars

\* arguments of _generate_summary: data lists and finding lists
SummaryObsInputs == {<<>>, <<ObsRow(1, Some(200), None)>>, <<ObsRow(1, None, Some(700))>>}

SummaryFindingInputs ==
    {[warnings |-> w, anomalies |-> a, suggestions |-> s] :
        w \in {<<>>, <<[kind |-> "temperature_variance", lo |-> 200, hi |-> 251]>>},
        a \in {<<>>, <<[kind |-> "humidity_drop", value |-> 700, date |-> 1]>>},
        s \in {<<>>,
               <<[kind |-> "co2_acceptable"]>>,
               <<[kind |-> "co2_acceptable"],
                 [kind |-> "humidity_increase", avg |-> <<700, 1>>]>>,
               <<[kind |-> "light_above", avg |-> <<160, 1>>],
                 [kind |-> "temperature_optimal", avg |-> <<200, 1>>],
                 [kind |-> "humidity_increase", avg |-> <<700, 1>>]>>}}

\* generate_insights derives the findings from the observations and the
\* harvests: a batch without data has none
NoFindings == [warnings |-> <<>>, anomalies |-> <<>>, suggestions |-> <<>>]

InitSummary ==
    /\ EmptyStore
    /\ op = "init"
    /\ args \in {[batch |-> StrawBatch, observations |-> obs, harvests |-> hs,
                  warnings |-> f.warnings, anomalies |-> f.anomalies,
                  suggestions |-> f.suggestions] :
                    obs \in SummaryObsInputs, hs \in HarvestInputs,
                    f \in SummaryFindingInputs}
    /\ (args.observations = <<>> /\ args.harvests = <<>>) =>
          [warnings |-> args.warnings, anomalies |-> args.anomalies,
           suggestions |-> args.suggestions] = NoFindings
    /\ ret = <<>>

Call_generate_summary ==
    /\ op = "init"
    /\ op' = "_generate_summary"
    /\ ret' = _generate_summary(args.batch, args.observations, args.harvests,
                                args.warnings, args.anomalies, args.suggestions)
    /\ UNCHANGED <<store, args, queries>>

NextSummary == Call_generate_summary

SpecSummary == InitSummary /\ [][NextSummary]_vars

(***************************************************************************)
(* _analyze_observations on CO2 series: one batch's observations in date   *)
(* order, each with a CO2 level or none and no other reading.              *)
(***************************************************************************)
MaxCo2Days == 6

\* CO2_level: Optional[str], validated to be 'low', 'medium' or 'high'
Co2Inputs == {None, Some("low"), Some("medium"), Some("high")}

Co2Row(d, c) == [ObservationRow(d, 1, d, None, None) EXCEPT !.CO2_level = c]

InitCo2 ==
    /\ EmptyStore
    /\ op = "init"
    /\ \E n \in 0..MaxCo2Days :
          \E f \in [1..n -> Co2Inputs] :
             args = [observations |-> [d \in 1..n |-> Co2Row(d, f[d])],
                     batch |-> StrawBatch]
    /\ ret = <<>>

SpecCo2 == InitCo2 /\ [][NextObs]_vars

(***************************************************************************)
(* _analyze_observations on temperature series: one batch's observations   *)
(* in date order, each with a temperature or none and no other reading.    *)
(***************************************************************************)
MaxTempDays == 7

TempSeriesInputs == {None, Some(200), Some(210), Some(220)}

InitTempSeries ==
    /\ EmptyStore
    /\ op = "init"
    /\ \E n \in 0..MaxTempDays :
          \E f \in [1..n -> TempSeriesInputs] :
             args = [observations |-> [d \in 1..n |-> ObsRow(d, f[d], None)],
                     batch |-> StrawBatch]
    /\ ret = <<>>

SpecTempSeries == InitTempSeries /\ [][NextObs]_vars

(***************************************************************************)
(* _analyze_observations on humidity series: one batch's observations in   *)
(* date order, each with a humidity or none and no other reading.          *)
(***************************************************************************)
MaxHumDays == 8

HumSeriesInputs == {None, Some(500), Some(850), Some(900)}

InitHumSeries ==
    /\ EmptyStore
    /\ op = "init"
    /\ \E n \in 0..MaxHumDays :
          \E f \in [1..n -> HumSeriesInputs] :
             args = [observations |-> [d \in 1..n |-> ObsRow(d, None, f[d])],
                     batch |-> StrawBatch]
    /\ ret = <<>>

SpecHumSeries == InitHumSeries /\ [][NextObs]_vars

(***************************************************************************)
(* _analyze_observations on readings around the optimal ranges: each       *)
(* observation has a temperature or none and light hours or none.          *)
(***************************************************************************)
MaxRangeDays == 2

RangeTempInputs == {None, Some(199), Some(200), Some(240), Some(241)}
RangeLightInputs == {None, Some(99), Some(100), Some(140), Some(141)}

RangeRow(d, t, l) == [ObsRow(d, t, None) EXCEPT !.light_hours_per_day = l]

InitRanges ==
    /\ EmptyStore
    /\ op = "init"
    /\ \E n \in 0..MaxRangeDays :
          \E f \in [1..n -> RangeTempInputs \X RangeLightInputs] :
             args = [observations |-> [d \in 1..n |-> RangeRow(d, f[d][1], f[d][2])],
                     batch |-> StrawBatch]
    /\ ret = <<>>

SpecRanges == InitRanges /\ [][NextObs]_vars

(***************************************************************************)
(* _analyze_observations on mixed observations: a series of readings of    *)
(* one metric, each day's other three fields all recorded or all missing.  *)
(***************************************************************************)
MaxMixedDays == 5

MetricInputs(m) ==
    CASE m = "ambient_temperature_celsius" -> {None, Some(200), Some(260)}
      [] m = "relative_humidity_percent" -> {None, Some(700), Some(850)}
      [] m = "CO2_level" -> {None, Some("low"), Some("high")}
      [] m = "light_hours_per_day" -> {None, Some(120), Some(160)}

\* a day with no reading, and a day with every reading
BlankRow(d) == ObservationRow(d, 1, d, None, None)

FullRow(d) ==
    [ObservationRow(d, 1, d, Some(230), Some(700))
        EXCEPT !.CO2_level = Some("high"), !.light_hours_per_day = Some(160)]

MixedRow(d, m, v, recorded) ==
    [(IF recorded THEN FullRow(d) ELSE BlankRow(d)) EXCEPT ![m] = v]

InitMixed ==
    /\ EmptyStore
    /\ op = "init"
    /\ \E m \in ObsFieldNames :
          \E n \in 0..MaxMixedDays :
             \E f \in [1..n -> MetricInputs(m) \X BOOLEAN] :
                args = [observations |-> [d \in 1..n |-> MixedRow(d, m, f[d][1], f[d][2])],
                        batch |-> StrawBatch]
    /\ ret = <<>>

SpecMixed == InitMixed /\ [][NextObs]_vars

(***************************************************************************)
(* compare_batches on stored readings: batches 1..n without harvests,      *)
(* each with the observations of its dates 1..m.                           *)
(***************************************************************************)
\* the <<temperature, humidity>> readings of a batch's observations:
\* temperature ge=-10, le=50 and humidity ge=0, le=100
ReadingProfiles ==
    {<<>>, << <<Some(0 - 50), None>>, <<Some(50), Some(800)>> >>}
    \cup {<< <<t, h>> >> : t \in {None, Some(0), Some(200)},
                          h \in {None, Some(0), Some(800)}}

\* observations of the batches before batch i: the rowids already taken
ReadingsBefore(f, i) == SeqSum([j \in 1..(i - 1) |-> Len(f[j])])

InitReadings ==
    /\ \E n \in 0..MaxBatches :
          \E f \in [1..n -> ReadingProfiles] :
             /\ batches = {BatchRow(i, "Straw") : i \in 1..n}
             /\ observations =
                   UNION {{ObservationRow(ReadingsBefore(f, i) + d, i, d,
                                          f[i][d][1], f[i][d][2]) :
                              d \in DOMAIN f[i]} : i \in 1..n}
    /\ harvests = {}
    /\ op = "init"
    /\ args = <<>>
    /\ ret = <<>>
    /\ queries = 0

NextReadings == \E batch_ids \in IdLists : CallCompareBatches(batch_ids)

SpecReadings == InitReadings /\ [][NextReadings]_vars

(***************************************************************************)
(* compare_batches on stored batches with readings and harvests.  f[i] is  *)
(* the data of batch i: the yields of its flushes 1..k and the             *)
(* <<temperature, humidity>> readings of its dates 1..m.                   *)
(***************************************************************************)
FlushesBefore(f, i) == SeqSum([j \in 1..(i - 1) |-> Len(f[j].yields)])
DaysBefore(f, i) == SeqSum([j \in 1..(i - 1) |-> Len(f[j].readings)])

StoreHolds(n, f) ==
    /\ batches = {BatchRow(i, "Straw") : i \in 1..n}
    /\ harvests =
          UNION {{HarvestRow(FlushesBefore(f, i) + k, i, k, f[i].yields[k]) :
                     k \in DOMAIN f[i].yields} : i \in 1..n}
    /\ observations =
          UNION {{ObservationRow(DaysBefore(f, i) + d, i, d,
                                 f[i].readings[d][1], f[i].readings[d][2]) :
                     d \in DOMAIN f[i].readings} : i \in 1..n}

\* humidity readings of a batch: none, 70.0, 90.0, or 0.0, 0.0 and 0.1
\* (a mean that rounds to 0.0)
HumidityProfiles ==
    {[yields |-> <<y>>, readings |-> r] :
        y \in {10, 20},
        r \in {<<>>, << <<None, Some(700)>> >>, << <<None, Some(900)>> >>,
               << <<None, Some(0)>>, <<None, Some(0)>>, <<None, Some(1)>> >>}}

InitHumidityCompare ==
    /\ \E n \in 0..MaxBatches : \E f \in [1..n -> HumidityProfiles] : StoreHolds(n, f)
    /\ op = "init"
    /\ args = <<>>
    /\ ret = <<>>
    /\ queries = 0

SpecHumidityCompare == InitHumidityCompare /\ [][NextReadings]_vars

\* temperature readings of a batch: none, one, or two with a range of
\* 1.0 or 3.0 degrees; no harvests
TemperatureProfiles ==
    {[yields |-> <<>>, readings |-> [d \in DOMAIN ts |-> <<Some(ts[d]), None>>]] :
        ts \in {<<>>, <<200>>, <<200, 210>>, <<200, 230>>}}

InitStability ==
    /\ \E n \in 0..MaxBatches : \E f \in [1..n -> TemperatureProfiles] : StoreHolds(n, f)
    /\ op = "init"
    /\ args = <<>>
    /\ ret = <<>>
    /\ queries = 0

SpecStability == InitStability /\ [][NextReadings]_vars

(***************************************************************************)
(* Two requests in flight on the write routes.  Each request runs on its   *)
(* own session (get_db) and its own thread; its queries and its commit are *)
(* separate statements, so the other request's statements can fall between *)
(* them.  db.add only registers the row: the INSERT or UPDATE is sent by   *)
(* db.commit, in one transaction.  args holds the frame of each request    *)
(* (its arguments, the statement it is at, the row its existence check     *)
(* loaded) and ret the response of each request, None while it runs.       *)
(***************************************************************************)
Callers == {1, 2}

RaceObsRequests ==
    {MakeObsRequest(d, t, Unset, Unset, Unset) :
        d \in 1..MaxDate,
        t \in {Unset, Given(Some(200)), Given(Some(210))}}

RaceHarvestRequests ==
    {MakeHarvestRequest(f, y, Unset, Unset) : f \in 1..MaxFlush, y \in {10, 20}}

Frame(route, batch_id, body) ==
    [route |-> route, batch_id |-> batch_id, body |-> body,
     pc |-> "lookup_batch", existing |-> None]

\* the store holds batch 1 and no rows; both requests are for the same route
InitRace ==
    /\ batches = {[batch_id |-> 1, username |-> b.username,
                   substrate_type |-> b.substrate_type,
                   substrate_moisture_percent |-> b.substrate_moisture_percent,
                   spawn_rate_percent |-> b.spawn_rate_percent,
                   start_date |-> b.start_date] : b \in BatchRequests}
    /\ observations = {}
    /\ harvests = {}
    /\ op = "init"
    /\ \E ids \in [Callers -> 1..2] :
          \/ \E bodies \in [Callers -> RaceObsRequests] :
                args = [c \in Callers |-> Frame("observations", ids[c], bodies[c])]
          \/ \E bodies \in [Callers -> RaceHarvestRequests] :
                args = [c \in Callers |-> Frame("harvests", ids[c], bodies[c])]
    /\ ret = [c \in Callers |-> None]
    /\ queries = 0

\* batch = db.query(models.Batch).filter(...).first(); if not batch: raise 404
LookupBatch(c) ==
    /\ args[c].pc = "lookup_batch"
    /\ op' = "lookup_batch"
    /\ queries' = queries + 1
    /\ UNCHANGED store
    /\ IF args[c].batch_id \notin BatchIds
       THEN /\ args' = [args EXCEPT ![c].pc = "done"]
            /\ ret' = [ret EXCEPT ![c] = [status |-> 404, body |-> 0]]
       ELSE /\ args' = [args EXCEPT ![c].pc = "check_existing"]
            /\ UNCHANGED ret

\* existing_obs = db.query(models.DailyObservation).filter(...).first()
\* existing_harvest = db.query(models.Harvest).filter(...).first()
CheckExisting(c) ==
    /\ args[c].pc = "check_existing"
    /\ op' = "check_existing"
    /\ queries' = queries + 1
    /\ UNCHANGED <<store, ret>>
    /\ LET found == IF args[c].route = "observations"
                    THEN ExistingObservations(args[c].batch_id, args[c].body)
                    ELSE ExistingHarvests(args[c].batch_id, args[c].body)
       IN  IF found = {}
           THEN args' = [args EXCEPT ![c].pc = "commit"]
           ELSE \E row \in found :
                   args' = [args EXCEPT ![c].pc = "commit", ![c].existing = Some(row)]

\* the update branch or the create branch of create_or_update_observation, up
\* to its db.commit(); an IntegrityError goes to the except clause:
\* db.rollback() and HTTP 400
CommitObservation(c) ==
    /\ args[c].pc = "commit"
    /\ args[c].route = "observations"
    /\ op' = "commit_observation"
    /\ args' = [args EXCEPT ![c].pc = "done"]
    /\ UNCHANGED <<batches, harvests, queries>>
    /\ IF args[c].existing # None
       THEN LET id == Val(args[c].existing).observation_id
            IN  /\ observations' =
                       {IF o.observation_id = id
                        THEN UpdatedObservation(o, args[c].body) ELSE o : o \in observations}
                /\ ret' = [ret EXCEPT ![c] = [status |-> 201, body |-> id]]
       ELSE LET db_obs == NewObservation(args[c].batch_id, args[c].body)
            IN  IF ViolatesUqBatchDate(db_obs)
                THEN /\ UNCHANGED observations
                     /\ ret' = [ret EXCEPT ![c] = [status |-> 400, body |-> 0]]
                ELSE /\ observations' = observations \cup {db_obs}
                     /\ ret' = [ret EXCEPT ![c] =
                                   [status |-> 201, body |-> db_obs.observation_id]]

\* the same two branches of create_or_update_harvest
CommitHarvest(c) ==
    /\ args[c].pc = "commit"
    /\ args[c].route = "harvests"
    /\ op' = "commit_harvest"
    /\ args' = [args EXCEPT ![c].pc = "done"]
    /\ UNCHANGED <<batches, observations, queries>>
    /\ IF args[c].existing # None
       THEN LET id == Val(args[c].existing).harvest_id
            IN  /\ harvests' =
                       {IF h.harvest_id = id
                        THEN UpdatedHarvest(h, args[c].body) ELSE h : h \in harvests}
                /\ ret' = [ret EXCEPT ![c] = [status |-> 201, body |-> id]]
       ELSE LET db_harvest == NewHarvest(args[c].batch_id, args[c].body)
            IN  IF ViolatesUqBatchFlush(db_harvest)
                THEN /\ UNCHANGED harvests
                     /\ ret' = [ret EXCEPT ![c] = [status |-> 400, body |-> 0]]
                ELSE /\ harvests' = harvests \cup {db_harvest}
                     /\ ret' = [ret EXCEPT ![c] =
                                   [status |-> 201, body |-> db_harvest.harvest_id]]

NextRace ==
    \/ \E c \in Callers : LookupBatch(c)
    \/ \E c \in Callers : CheckExisting(c)
    \/ \E c \in Callers : CommitObservation(c)
    \/ \E c \in Callers : CommitHarvest(c)

SpecRace == InitRace /\ [][NextRace]_vars

(***************************************************************************)
(* Seeding.  lifespan calls seed_database(clear_existing=False) at every   *)
(* startup; running seed_data.py as a script calls                         *)
(* seed_database(clear_existing=True).  Dates are day numbers with         *)
(* start_date (2025-11-04) as day 1.  random.seed(42) fixes the stream of  *)
(* draws; the model leaves the stream open: a call uses any one of         *)
(* RandomStreams, a draw being the tenth of the unit interval that         *)
(* random.random() falls in.  Seeded yields are kept in tenths of a kg     *)
(* like every other yield, so round(x, 2) rounds to the tenth here.        *)
(***************************************************************************)
SeededNames == {"Dhanush", "Rakesh", "Gagan"}

batches_config ==
    <<[name |-> "Dhanush", substrate_type |-> "Straw", substrate_moisture |-> 650],
      [name |-> "Rakesh", substrate_type |-> "Sawdust", substrate_moisture |-> 700],
      [name |-> "Gagan", substrate_type |-> "Compost", substrate_moisture |-> 680]>>

spawn_rate == 50
start_date == 1
end_date == 37
total_days == end_date - start_date + 1
harvest_start_day == 23
harvest_days == {0, 4, 9, 14, 19, 24, 29}
harvest_ranges == <<<<10, 30>>, <<20, 40>>, <<15, 50>>>>

\* the day offsets on which a harvest is recorded
HarvestOffsets ==
    {d \in 0..(total_days - 1) :
        d >= harvest_start_day /\ (d - harvest_start_day) \in harvest_days}

\* draws of one batch: three a day and one more on a harvest day
DrawsPerBatch == 3 * total_days + Cardinality(HarvestOffsets)

\* draws made before day d of the batch at position idx (from 0)
DrawsBefore(idx, d) ==
    idx * DrawsPerBatch + 3 * d + Cardinality({h \in HarvestOffsets : h < d})

RandomStreams ==
    {[k \in 1..(Len(batches_config) * DrawsPerBatch) |-> (k * m) % 10] : m \in {3, 7}}

\* random.uniform(a, b) for the draw u, times ten
Uniform10(a, b, u) == 10 * a + (b - a) * u

Clamp(lo, hi, x) == IF x < lo THEN lo ELSE IF x > hi THEN hi ELSE x

\* get_south_india_weather
get_south_india_weather(day_offset, u1, u2) ==
    LET base_temp == 260
        base_humidity == 750
        late == day_offset > 20
        temp_variation == Uniform10(-30, 40, u1) \div 10 - (IF late THEN 15 ELSE 0)
        humidity_variation == Uniform10(-150, 150, u2) \div 10 + (IF late THEN 50 ELSE 0)
    IN  <<Clamp(220, 300, base_temp + temp_variation),
          Clamp(600, 900, base_humidity + humidity_variation)>>

\* get_co2_level
get_co2_level(temperature, humidity) ==
    IF temperature > 280 /\ humidity > 850 THEN "high"
    ELSE IF temperature < 240 \/ humidity < 700 THEN "low"
    ELSE "medium"

\* the observation of day d of the seeded batch at position idx
SeedObservation(id, batch_id, idx, d, s) ==
    LET k == DrawsBefore(idx, d)
        w == get_south_india_weather(d, s[k + 1], s[k + 2])
        light_hours == Uniform10(100, 140, s[k + 3])
    IN  [observation_id |-> id,
         batch_id |-> batch_id,
         date |-> start_date + d,
         ambient_temperature_celsius |-> Some(w[1]),
         relative_humidity_percent |-> Some(w[2]),
         CO2_level |-> Some(get_co2_level(w[1], w[2])),
         light_hours_per_day |-> Some(light_hours \div 10)]

\* harvest_yield of the harvest on day d
SeedYield(idx, d, s) ==
    LET k == DrawsBefore(idx, d)
        w == get_south_india_weather(d, s[k + 1], s[k + 2])
        min_harvest == harvest_ranges[idx + 1][1]
        max_harvest == harvest_ranges[idx + 1][2]
        condition_factor ==
            IF 240 <= w[1] /\ w[1] <= 270 /\ 750 <= w[2] /\ w[2] <= 850 THEN 115
            ELSE IF w[1] > 280 \/ w[2] < 700 THEN 85
            ELSE 100
        base_yield == Uniform10(min_harvest, max_harvest, s[k + 4])
        harvest_yield == (base_yield * condition_factor + 500) \div 1000
    IN  Clamp(5, (max_harvest * 12) \div 10, harvest_yield)

\* the harvest of day d: its flush number counts the harvests so far and
\* total_batch_yield_kg is the running total
SeedHarvest(id, batch_id, idx, d, s) ==
    LET earlier == {h \in HarvestOffsets : h <= d}
        flush_number == Cardinality(earlier)
        total_yield_kg ==
            SeqSum([j \in 1..flush_number |->
                       SeedYield(idx, CHOOSE h \in earlier :
                                         Cardinality({e \in earlier : e <= h}) = j, s)])
    IN  [harvest_id |-> id,
         batch_id |-> batch_id,
         flush_number |-> flush_number,
         flush_yield_kg |-> SeedYield(idx, d, s),
         total_batch_yield_kg |-> Some(total_yield_kg),
         date |-> Some(start_date + d)]

\* mutant of ExistingSeedBatches: the check for seeded batches finds nothing
ExistingSeedBatches_unchecked(bs) == {}

\* db.query(models.Batch).filter(models.Batch.username.in_([...])).all()
ExistingSeedBatches(bs) == {b \in bs : b.username \in SeededNames}

MaxIdOf(ids) == NextId(ids) - 1

\* seed_database with the stream s
seed_database(clear_existing, s) ==
    LET existing_batches == ExistingSeedBatches(batches)
    IN  /\ args' = [clear_existing |-> clear_existing]
        /\ ret' = <<>>
        /\ IF existing_batches # {} /\ ~clear_existing
           THEN /\ queries' = 1
                /\ UNCHANGED store
           ELSE LET clear == clear_existing \/ existing_batches # {}
                    kept_batches == IF clear THEN {} ELSE batches
                    kept_observations == IF clear THEN {} ELSE observations
                    kept_harvests == IF clear THEN {} ELSE harvests
                    b0 == MaxIdOf({b.batch_id : b \in kept_batches})
                    o0 == MaxIdOf({o.observation_id : o \in kept_observations})
                    h0 == MaxIdOf({h.harvest_id : h \in kept_harvests})
                    n == Len(batches_config)
                IN  /\ queries' = 1 + 3 * n
                    /\ batches' = kept_batches \cup
                          {[batch_id |-> b0 + i,
                            username |-> batches_config[i].name,
                            substrate_type |-> batches_config[i].substrate_type,
                            substrate_moisture_percent |-> batches_config[i].substrate_moisture,
                            spawn_rate_percent |-> spawn_rate,
                            start_date |-> start_date] : i \in 1..n}
                    /\ observations' = kept_observations \cup
                          {SeedObservation(o0 + (i - 1) * total_days + d + 1,
                                           b0 + i, i - 1, d, s) :
                              i \in 1..n, d \in 0..(total_days - 1)}
                    /\ harvests' = kept_harvests \cup
                          {SeedHarvest(h0 + (i - 1) * Cardinality(HarvestOffsets)
                                          + Cardinality({h \in HarvestOffsets : h <= d}),
                                       b0 + i, i - 1, d, s) :
                              i \in 1..n, d \in HarvestOffsets}

\* lifespan: the startup of the application
lifespan ==
    /\ op' = "lifespan"
    /\ \E s \in RandomStreams : seed_database(FALSE, s)

\* python seed_data.py
seed_script ==
    /\ op' = "seed_data"
    /\ \E s \in RandomStreams : seed_database(TRUE, s)

\* a batch request of a user who has the name of a seeded batch
SeedNameBatchRequests ==
    {[username |-> "Gagan", substrate_type |-> "Sawdust",
      substrate_moisture_percent |-> 600, spawn_rate_percent |-> 50, start_date |-> 1]}

\* the requests on the write routes between startups: one observation of
\* day 1 and one first flush
StartupObsRequests == {MakeObsRequest(1, Given(Some(200)), Unset, Unset, Unset)}
StartupHarvestRequests == {MakeHarvestRequest(1, 10, Unset, Unset)}

NextSeed ==
    \/ lifespan
    \/ seed_script
    \/ \E batch \in BatchRequests \cup SeedNameBatchRequests : create_batch(batch)
    \/ \E batch_id \in 1..(MaxBatches + 1), obs \in StartupObsRequests :
          create_or_update_observation(batch_id, obs)
    \/ \E batch_id \in 1..(MaxBatches + 1), harvest \in StartupHarvestRequests :
          create_or_update_harvest(batch_id, harvest)

SpecSeed == Init /\ [][NextSeed]_vars

(***************************************************************************)
(* Properties.                                                             *)
(***************************************************************************)
SetMax(S) == CHOOSE m \in S : \A x \in S : x <= m
SetMin(S) == CHOOSE m \in S : \A x \in S : m <= x
Min2(a, b) == IF a <= b THEN a ELSE b
OfKind(msgs, kinds) == SelectSeq(msgs, LAMBDA m : m.kind \in kinds)

\* the non-missing temperature readings of the analysed list
GivenTemps ==
    {Val(args.observations[i].ambient_temperature_celsius) :
        i \in {j \in DOMAIN args.observations :
                  args.observations[j].ambient_temperature_celsius # None}}

\* C1: with at least one temperature reading, _analyze_observations gives
\* exactly one temperature-variance warning when max - min > 5.0 and none
\* when max - min <= 5.0 (a single reading has range 0).
C1_VarianceWarningIffRangeAbove5 ==
    (op = "_analyze_observations" /\ GivenTemps # {}) =>
        Len(OfKind(ret.warnings, {"temperature_variance"})) =
            (IF SetMax(GivenTemps) - SetMin(GivenTemps) > 50 THEN 1 ELSE 0)

\* C1 witness: a list whose readings span more than 5.0 has been analysed
\* and carries the warning.
C1_Witness ==
    /\ op = "_analyze_observations"
    /\ GivenTemps # {}
    /\ SetMax(GivenTemps) - SetMin(GivenTemps) > 50
    /\ ret.warnings = <<[kind |-> "temperature_variance", lo |-> 200, hi |-> 251]>>

\* C2: the store never holds two observations with the same (batch_id, date)
\* nor two harvests with the same (batch_id, flush_number).
C2_OneRowPerKey ==
    /\ \A o1, o2 \in observations :
          (o1.batch_id = o2.batch_id /\ o1.date = o2.date) => o1 = o2
    /\ \A h1, h2 \in harvests :
          (h1.batch_id = h2.batch_id /\ h1.flush_number = h2.flush_number) => h1 = h2

\* C2 witness: a request was answered with observation 1 while the same
\* batch already had observation 2 on another date: the request hit the
\* existing row for its key and updated it.
C2_Witness ==
    /\ op = "create_or_update_observation"
    /\ ret = [status |-> 201, body |-> 1]
    /\ Cardinality(observations) = 2
    /\ \A o \in observations : o.batch_id = args.batch_id

\* C3: a step that is a call of generate_insights or compare_batches leaves
\* batches, observations and harvests exactly as they were.
C3_ReadsLeaveStoreUnchanged ==
    [][op' \in {"generate_insights", "compare_batches"} => store' = store]_vars

\* C3 witness: generate_insights has run on a batch that has harvests.
C3_Witness ==
    /\ op = "generate_insights"
    /\ \E h \in harvests : h.batch_id = args.batch_id
    /\ ret.trends # <<>>

\* C4: a call of generate_insights has one possible result on a given
\* store: whatever order the unordered table scans deliver, a second call
\* for the same batch on the unchanged store returns what the first returned.
C4_InsightsRepeatable ==
    op = "generate_insights" =>
        \A db \in DbViews : generate_insights(args.batch_id, db).result = ret

\* C4 witness: generate_insights has compared the batch's first flush with
\* first flushes of two batches of its substrate type, read by an unordered scan.
C4_Witness ==
    /\ op = "generate_insights"
    /\ OfKind(ret.warnings, {"early_underperformance"}) # <<>>
    /\ Cardinality({h \in harvests : h.flush_number = 1}) = 2

\* C5: compare_batches with fewer than 2 ids returns empty yield_comparison
\* and average_conditions and the single "at least 2 batches" insight, and
\* issues no query.
C5_FewerThanTwoIds ==
    (op = "compare_batches" /\ Len(args.batch_ids) < 2) =>
        /\ ret = [yield_comparison |-> <<>>, average_conditions |-> <<>>,
                  insights |-> <<[kind |-> "at_least_2_required"]>>]
        /\ queries = 0

\* C5 witness: compare_batches was called with the one id of a stored batch.
C5_Witness ==
    /\ op = "compare_batches"
    /\ Len(args.batch_ids) = 1
    /\ args.batch_ids[1] \in BatchIds

\* the ids of the request that resolve to no stored batch
UnresolvedIds == Range(args.batch_ids) \ BatchIds

IsNotFoundFailure(r) ==
    /\ r.yield_comparison = <<>>
    /\ r.average_conditions = <<>>
    /\ Len(r.insights) = 1
    /\ r.insights[1].kind = "not_found"

\* C6: with at least 2 ids, compare_batches returns the not-found failure
\* if and only if some id resolves to no stored batch, and it names exactly
\* the unresolved ids; a list whose ids all resolve, repeated ids included,
\* is not reported as not found.
C6_NotFoundIffUnresolved ==
    (op = "compare_batches" /\ Len(args.batch_ids) >= 2) =>
        /\ IsNotFoundFailure(ret) <=> UnresolvedIds # {}
        /\ IsNotFoundFailure(ret) => ret.insights[1].missing = UnresolvedIds

\* C7: _analyze_harvests on an empty harvest list returns empty warnings,
\* suggestions and trends, whatever the batch and the historical data.
C7_NoHarvestsNoFindings ==
    (op = "_analyze_harvests" /\ args.harvests = <<>>) =>
        ret = [warnings |-> <<>>, suggestions |-> <<>>, trends |-> <<>>]

\* C7 witness: the empty list was analysed against a peer of the same
\* substrate type that has a first flush.
C7_Witness ==
    /\ op = "_analyze_harvests"
    /\ args.harvests = <<>>
    /\ args.all_harvests # <<>>
    /\ args.all_batches[2].substrate_type = args.batch.substrate_type

\* C8: _analyze_harvests emits the two projection trends exactly when the
\* batch has one harvest; for first-flush yield y they state 0.65*y to 0.8*y
\* for the second flush and 2.04*y to 1.2*2.04*y for the total.
C8_ProjectionIffOneHarvest ==
    op = "_analyze_harvests" =>
        LET proj == OfKind(ret.trends, {"projection_second_flush", "projection_total"})
            y == args.harvests[1].flush_yield_kg
        IN  IF Len(args.harvests) = 1
            THEN proj = <<[kind |-> "projection_second_flush",
                           first |-> Norm(y, 1),
                           lo |-> Norm(65 * y, 100),
                           hi |-> Norm(80 * y, 100)],
                          [kind |-> "projection_total",
                           lo |-> Norm(204 * y, 100),
                           hi |-> Norm(12 * 204 * y, 1000)]>>
            ELSE proj = <<>>

\* C8 witness: one harvest of 2.0 kg was analysed: 1.30 kg and 4.08 kg.
C8_Witness ==
    /\ op = "_analyze_harvests"
    /\ Len(args.harvests) = 1
    /\ args.harvests[1].flush_yield_kg = 20
    /\ \E i \in DOMAIN ret.trends :
          /\ ret.trends[i].kind = "projection_second_flush"
          /\ ret.trends[i].lo = <<13, 1>>
    /\ \E i \in DOMAIN ret.trends :
          /\ ret.trends[i].kind = "projection_total"
          /\ ret.trends[i].lo = <<204, 5>>

\* C9: _generate_summary has a projected-total clause exactly when there is
\* one harvest, and for first-flush yield y it states 2.5*y to 1.2*2.5*y.
C9_SummaryProjectionIffOneHarvest ==
    op = "_generate_summary" =>
        LET proj == OfKind(ret, {"projected_total"})
            y == args.harvests[1].flush_yield_kg
        IN  IF Len(args.harvests) = 1
            THEN proj = <<[kind |-> "projected_total",
                           lo |-> Norm(25 * y, 10),
                           hi |-> Norm(12 * 25 * y, 100)]>>
            ELSE proj = <<>>

\* C9 witness: the summary of a batch with one harvest of 2.0 kg states 5.0 to 6.0.
C9_Witness ==
    /\ op = "_generate_summary"
    /\ Len(args.harvests) = 1
    /\ args.harvests[1].flush_yield_kg = 20
    /\ ret[Len(ret)] = [kind |-> "projected_total", lo |-> <<50, 1>>, hi |-> <<60, 1>>]

\* the positions of the analysed list with a humidity reading below 80.0
LowHumidityPositions ==
    {i \in DOMAIN args.observations :
        /\ args.observations[i].relative_humidity_percent # None
        /\ Val(args.observations[i].relative_humidity_percent) < 800}

\* C10: the humidity anomalies are the readings below 80.0 (0.0 included),
\* the earliest 3 of them at most, in list order.
C10_LowHumidityAnomalies ==
    op = "_analyze_observations" =>
        LET drops == OfKind(ret.anomalies, {"humidity_drop"})
            n == Min2(3, Cardinality(LowHumidityPositions))
        IN  /\ Len(drops) = n
            /\ \A k \in 1..n :
                  LET i == Kth(LowHumidityPositions, k)
                  IN  /\ drops[k].date = args.observations[i].date
                      /\ drops[k].value =
                            Val(args.observations[i].relative_humidity_percent)

\* the lengths of the runs of consecutive observations with CO2 level 'high'
HighRunLengths ==
    {k \in 0..Len(args.observations) :
        \E i \in 1..(Len(args.observations) - k + 1) :
            \A j \in i..(i + k - 1) : args.observations[j].CO2_level = Some("high")}

\* C11: the CO2 anomaly is emitted exactly when the longest run of
\* consecutive 'high' observations (a low, medium or missing level ends a
\* run) has length at least 5; it states that length, and the ventilation
\* suggestion is emitted exactly when the anomaly is.
C11_Co2AnomalyIffRunOfFive ==
    op = "_analyze_observations" =>
        LET run == SetMax(HighRunLengths)
            anomaly == OfKind(ret.anomalies, {"co2_high"})
            ventilation == OfKind(ret.suggestions, {"co2_ventilation"})
        IN  /\ run >= 5 => anomaly = <<[kind |-> "co2_high", days |-> run]>>
            /\ run < 5 => anomaly = <<>>
            /\ Len(ventilation) = Len(anomaly)

\* C11 witness: six observations, a missing level first and then five
\* 'high' in a row, gave the anomaly with length 5.
C11_Witness ==
    /\ op = "_analyze_observations"
    /\ Len(args.observations) = 6
    /\ args.observations[1].CO2_level = None
    /\ OfKind(ret.anomalies, {"co2_high"}) = <<[kind |-> "co2_high", days |-> 5]>>

\* the flush-1 rows of the historical harvests that belong to a batch of the
\* analysed batch's substrate type (positions in all_harvests)
SameSubstrateFirstFlushes ==
    {i \in DOMAIN args.all_harvests :
        /\ args.all_harvests[i].flush_number = 1
        /\ \E j \in DOMAIN args.all_batches :
              /\ args.all_batches[j].batch_id = args.all_harvests[i].batch_id
              /\ args.all_batches[j].substrate_type = args.batch.substrate_type}

\* the sum of the yields of the rows of all_harvests at the positions P
YieldSumAt(P) ==
    SeqSum([k \in 1..Cardinality(P) |-> args.all_harvests[Kth(P, k)].flush_yield_kg])

\* y < 0.7 * (sum / count), in integers
BelowSeventyPercent(y, sum, count) == 10 * y * count < 7 * sum

\* C12: _analyze_harvests emits the early-underperformance warning exactly
\* when the batch's first harvest is flush 1, some flush-1 harvest exists
\* among batches of its substrate type, and its first-flush yield is
\* strictly below 0.7 times the mean of those yields; whenever the
\* percentage shortfall is computed, the mean it divides by is not zero.
C12_EarlyUnderperformanceIff ==
    (op = "_analyze_harvests" /\ args.harvests # <<>>) =>
        LET w == OfKind(ret.warnings, {"early_underperformance"})
            P == SameSubstrateFirstFlushes
            expected == /\ args.harvests[1].flush_number = 1
                        /\ P # {}
                        /\ BelowSeventyPercent(args.harvests[1].flush_yield_kg,
                                               YieldSumAt(P), Cardinality(P))
        IN  /\ Len(w) = IF expected THEN 1 ELSE 0
            /\ \A i \in DOMAIN w : w[i].avg_first_flush[1] > 0

\* C12 witness: a first flush of 1.0 kg against a same-substrate peer's
\* first flush of 4.0 kg (mean 2.5 kg) was warned about as 60% below.
C12_Witness ==
    /\ op = "_analyze_harvests"
    /\ ret.warnings = <<[kind |-> "early_underperformance",
                         first_flush_yield |-> <<10, 1>>,
                         percentage_below |-> <<60, 1>>,
                         avg_first_flush |-> <<25, 1>>]>>

\* the flush-1 rows of batches of the analysed batch's substrate type other
\* than the analysed batch itself
OtherBatchesFirstFlushes ==
    {i \in SameSubstrateFirstFlushes :
        args.all_harvests[i].batch_id # args.batch.batch_id}

\* C13: the peer baseline of the first-flush comparison is built from the
\* other batches of the analysed batch's substrate type: the warning is
\* decided against, and states, the mean first-flush yield of those batches,
\* the analysed batch's own harvests left out.
C13_PeerMeanExcludesOwnBatch ==
    (op = "_analyze_harvests" /\ args.harvests # <<>>) =>
        LET w == OfKind(ret.warnings, {"early_underperformance"})
            P == OtherBatchesFirstFlushes
            expected == /\ args.harvests[1].flush_number = 1
                        /\ P # {}
                        /\ BelowSeventyPercent(args.harvests[1].flush_yield_kg,
                                               YieldSumAt(P), Cardinality(P))
        IN  /\ Len(w) = IF expected THEN 1 ELSE 0
            /\ \A i \in DOMAIN w :
                  P # {} /\ w[i].avg_first_flush = Norm(YieldSumAt(P), Cardinality(P))

\* C14: with at least 2 harvests, yields y0 then y1 in flush order, the
\* decline trend is emitted iff y1 < 0.5*y0, the strong-second-flush trend
\* iff y1 > 0.8*y0 and not y1 < 0.5*y0, neither when 0.5*y0 <= y1 <= 0.8*y0,
\* never both; with fewer than 2 harvests neither is emitted.
C14_ProgressionTrend ==
    op = "_analyze_harvests" =>
        LET prog == OfKind(ret.trends, {"second_flush_decline", "second_flush_strong"})
        IN  IF Len(args.harvests) >= 2
            THEN LET y0 == args.harvests[1].flush_yield_kg
                     y1 == args.harvests[2].flush_yield_kg
                     decline == 2 * y1 < y0
                     strong == 10 * y1 > 8 * y0 /\ ~decline
                 IN  /\ decline => prog = <<[kind |-> "second_flush_decline",
                                             second |-> y1, first |-> y0]>>
                     /\ strong => prog = <<[kind |-> "second_flush_strong",
                                            second |-> y1, first |-> y0]>>
                     /\ (~decline /\ ~strong) => prog = <<>>
            ELSE prog = <<>>

\* C14 witness: second flushes of exactly half and of exactly 0.8 times the
\* first flush: 2.0 kg then 1.0 kg, or 1.0 kg then 0.8 kg, gave no trend.
C14_Witness ==
    /\ op = "_analyze_harvests"
    /\ Len(args.harvests) = 2
    /\ <<args.harvests[1].flush_yield_kg, args.harvests[2].flush_yield_kg>>
          \in {<<20, 10>>, <<10, 8>>}
    /\ ret.trends = <<>>

\* the positions of the analysed list that have a temperature reading
TempPositions ==
    {i \in DOMAIN args.observations :
        args.observations[i].ambient_temperature_celsius # None}

\* the sum of the a-th to b-th non-missing temperature readings
TempSumOf(a, b) ==
    SeqSum([k \in 1..(b - a + 1) |->
               Val(args.observations[Kth(TempPositions, a + k - 1)]
                       .ambient_temperature_celsius)])

\* C15: with n temperature readings, the trend compares the mean of the
\* last 3 with the mean of the first 3 (n >= 6) or of the first n-3
\* (3 < n < 6): 'Increasing' iff recent > earlier + 1, 'Decreasing' iff
\* recent < earlier - 1, never both; for n <= 3 there is no trend.
C15_TemperatureTrend ==
    op = "_analyze_observations" =>
        LET trend == OfKind(ret.trends, {"temperature_increasing",
                                         "temperature_decreasing"})
            n == Cardinality(TempPositions)
        IN  IF n <= 3 THEN trend = <<>>
            ELSE LET e == IF n >= 6 THEN 3 ELSE n - 3
                     recent == TempSumOf(n - 2, n)
                     earlier == TempSumOf(1, e)
                     increasing == recent * e > 3 * earlier + 3 * e * 10
                     decreasing == recent * e < 3 * earlier - 3 * e * 10
                 IN  /\ increasing =>
                            trend = <<[kind |-> "temperature_increasing",
                                       earlier |-> Norm(earlier, e),
                                       recent |-> Norm(recent, 3)]>>
                     /\ decreasing =>
                            trend = <<[kind |-> "temperature_decreasing",
                                       earlier |-> Norm(earlier, e),
                                       recent |-> Norm(recent, 3)]>>
                     /\ (~increasing /\ ~decreasing) => trend = <<>>

\* C15 witness: 7 readings, the first three 20.0 and the fourth 22.0, gave
\* an 'Increasing' trend from 20.0, the mean of the first 3 only.
C15_Witness ==
    /\ op = "_analyze_observations"
    /\ Cardinality(TempPositions) = 7
    /\ args.observations[4].ambient_temperature_celsius = Some(220)
    /\ \E i \in DOMAIN ret.trends :
          /\ ret.trends[i].kind = "temperature_increasing"
          /\ ret.trends[i].earlier = <<200, 1>>

\* the positions of the analysed list that have a humidity reading
HumPositions ==
    {i \in DOMAIN args.observations :
        args.observations[i].relative_humidity_percent # None}

\* the sum of the a-th to b-th non-missing humidity readings
HumSumOf(a, b) ==
    SeqSum([k \in 1..(b - a + 1) |->
               Val(args.observations[Kth(HumPositions, a + k - 1)]
                       .relative_humidity_percent)])

\* C16: with n >= 7 humidity readings the trend is decided by
\* mean(last 7) - mean(first 7): 'approaching optimal' iff it is > 5,
\* 'moving away' iff it is < -5, none otherwise; none with fewer than 7
\* readings, and none with exactly 7.
C16_HumidityTrend ==
    op = "_analyze_observations" =>
        LET trend == OfKind(ret.trends, {"humidity_increasing", "humidity_decreasing"})
            n == Cardinality(HumPositions)
        IN  IF n <= 7 THEN trend = <<>>
            ELSE LET recent == HumSumOf(n - 6, n)
                     earlier == HumSumOf(1, 7)
                 IN  /\ recent - earlier > 7 * 50 =>
                            trend = <<[kind |-> "humidity_increasing",
                                       earlier |-> Norm(earlier, 7),
                                       recent |-> Norm(recent, 7)]>>
                     /\ recent - earlier < 0 - 7 * 50 =>
                            trend = <<[kind |-> "humidity_decreasing",
                                       earlier |-> Norm(earlier, 7),
                                       recent |-> Norm(recent, 7)]>>
                     /\ (recent - earlier <= 7 * 50 /\ recent - earlier >= 0 - 7 * 50) =>
                            trend = <<>>

\* C16 witness: 8 readings, the first 50.0 and the last 85.0 (the two
\* windows' means differ by exactly 5.0), gave no humidity trend.
C16_Witness ==
    /\ op = "_analyze_observations"
    /\ Cardinality(HumPositions) = 8
    /\ args.observations[1].relative_humidity_percent = Some(500)
    /\ args.observations[8].relative_humidity_percent = Some(850)
    /\ OfKind(ret.trends, {"humidity_increasing", "humidity_decreasing"}) = <<>>

\* the positions of the analysed list that have a light-hours reading
LightPositions ==
    {i \in DOMAIN args.observations : args.observations[i].light_hours_per_day # None}

LightSum ==
    SeqSum([k \in 1..Cardinality(LightPositions) |->
               Val(args.observations[Kth(LightPositions, k)].light_hours_per_day)])

\* the one suggestion a metric with n readings of sum s gets: below lo,
\* above hi, or in range (lo and hi included)
RangeSuggestionKind(s, n, lo, hi, below, above, inrange) ==
    IF s < lo * n THEN below ELSE IF s > hi * n THEN above ELSE inrange

\* C17: for temperature and for light hours alike, a metric with at least
\* one reading gets exactly one mean-based suggestion, below-range,
\* above-range or in-range with 20.0/24.0 and 10.0/14.0 counted in range,
\* and a metric with no reading gets none.
C17_OneRangeSuggestionPerMetric ==
    op = "_analyze_observations" =>
        LET ts == OfKind(ret.suggestions, {"temperature_below", "temperature_above",
                                           "temperature_optimal"})
            ls == OfKind(ret.suggestions, {"light_below", "light_above", "light_optimal"})
            tn == Cardinality(TempPositions)
            ln == Cardinality(LightPositions)
        IN  /\ IF tn = 0 THEN ts = <<>>
               ELSE /\ Len(ts) = 1
                    /\ ts[1].kind = RangeSuggestionKind(TempSumOf(1, tn), tn, 200, 240,
                                         "temperature_below", "temperature_above",
                                         "temperature_optimal")
            /\ IF ln = 0 THEN ls = <<>>
               ELSE /\ Len(ls) = 1
                    /\ ls[1].kind = RangeSuggestionKind(LightSum, ln, 100, 140,
                                         "light_below", "light_above", "light_optimal")

\* C17 witness: readings whose means are the bounds 24.0 degrees and 10.0
\* hours were both answered with the in-range suggestion, and nothing else.
C17_Witness ==
    /\ op = "_analyze_observations"
    /\ ret.suggestions = <<[kind |-> "temperature_optimal", avg |-> <<240, 1>>],
                           [kind |-> "light_optimal", avg |-> <<100, 1>>]>>

\* the kinds of message _analyze_observations derives from a metric
MetricKinds(m) ==
    CASE m = "ambient_temperature_celsius" ->
            {"temperature_variance", "temperature_below", "temperature_above",
             "temperature_optimal", "temperature_increasing", "temperature_decreasing"}
      [] m = "relative_humidity_percent" ->
            {"humidity_drop", "humidity_increase", "humidity_reduce",
             "humidity_increasing", "humidity_decreasing"}
      [] m = "CO2_level" -> {"co2_high", "co2_ventilation", "co2_acceptable"}
      [] m = "light_hours_per_day" -> {"light_below", "light_above", "light_optimal"}

\* the messages of the given kinds in a result, list by list
MessagesOf(r, kinds) ==
    [warnings |-> OfKind(r.warnings, kinds), anomalies |-> OfKind(r.anomalies, kinds),
     suggestions |-> OfKind(r.suggestions, kinds), trends |-> OfKind(r.trends, kinds)]

NoMessages == [warnings |-> <<>>, anomalies |-> <<>>, suggestions |-> <<>>, trends |-> <<>>]

\* the same observations with every metric but m missing
OnlyMetric(obs, m) ==
    [i \in DOMAIN obs |->
        [ObservationRow(obs[i].observation_id, obs[i].batch_id, obs[i].date, None, None)
            EXCEPT ![m] = obs[i][m]]]

\* C18: the messages derived from one metric depend on that metric's
\* readings only: they are the messages the same series gives with the
\* other three fields missing everywhere, so two lists that agree on the
\* metric at every position get the same messages for it; a metric with no
\* reading contributes no message.
C18_MetricsIndependent ==
    op = "_analyze_observations" =>
        \A m \in ObsFieldNames :
            /\ MessagesOf(ret, MetricKinds(m)) =
                  MessagesOf(_analyze_observations(OnlyMetric(args.observations, m),
                                                   args.batch),
                             MetricKinds(m))
            /\ (\A i \in DOMAIN args.observations : args.observations[i][m] = None)
                  => MessagesOf(ret, MetricKinds(m)) = NoMessages

\* C18 witness: five days of 'high' CO2, the first with every other reading
\* recorded (humidity 70.0) and the second with none, gave the CO2 anomaly
\* of 5 days next to the humidity anomaly of the first day.
C18_Witness ==
    /\ op = "_analyze_observations"
    /\ Len(args.observations) = 5
    /\ args.observations[1].relative_humidity_percent = Some(700)
    /\ args.observations[2].relative_humidity_percent = None
    /\ args.observations[2].ambient_temperature_celsius = None
    /\ OfKind(ret.anomalies, {"co2_high"}) = <<[kind |-> "co2_high", days |-> 5]>>
    /\ OfKind(ret.anomalies, {"humidity_drop"}) # <<>>

\* the kinds of message and of summary clause that come from harvests
HarvestKinds ==
    {"early_underperformance", "second_flush_decline", "second_flush_strong",
     "projection_second_flush", "projection_total"}

HarvestSummaryKinds == {"current_yield", "projected_total"}

ObservationSummaryKinds == {"average_temperature", "average_humidity"}

\* C19: for a stored batch without observations and without harvests,
\* generate_insights returns four empty lists and the 'has no data yet'
\* summary; a batch without observations gets only harvest findings and no
\* observation clause in its summary, a batch without harvests gets no
\* harvest finding and no yield clause.
C19_MissingDataDegrades ==
    (op = "generate_insights" /\ args.batch_id \in BatchIds) =>
        LET no_obs == \A o \in observations : o.batch_id # args.batch_id
            no_harvests == \A h \in harvests : h.batch_id # args.batch_id
            findings == ret.warnings \o ret.anomalies \o ret.suggestions \o ret.trends
        IN  /\ (no_obs /\ no_harvests) =>
                  ret = [warnings |-> <<>>, anomalies |-> <<>>, suggestions |-> <<>>,
                         trends |-> <<>>,
                         summary |-> <<[kind |-> "no_data_yet",
                                        batch_id |-> args.batch_id]>>]
            /\ no_obs =>
                  /\ OfKind(findings, HarvestKinds) = findings
                  /\ OfKind(ret.summary, ObservationSummaryKinds) = <<>>
            /\ no_harvests =>
                  /\ OfKind(findings, HarvestKinds) = <<>>
                  /\ OfKind(ret.summary, HarvestSummaryKinds) = <<>>
            /\ ret.summary # <<>>

\* C19 witness: generate_insights answered 'no data yet' for a stored batch
\* while another batch of the store has observations and harvests.
C19_Witness ==
    /\ op = "generate_insights"
    /\ args.batch_id \in BatchIds
    /\ ret.summary = <<[kind |-> "no_data_yet", batch_id |-> args.batch_id]>>
    /\ observations # {}
    /\ harvests # {}

\* the stored temperature and humidity readings of a batch, as
\* <<observation_id, value>> pairs
StoredTemps(id) ==
    {<<o.observation_id, Val(o.ambient_temperature_celsius)>> :
        o \in {x \in observations :
                  x.batch_id = id /\ x.ambient_temperature_celsius # None}}

StoredHumidities(id) ==
    {<<o.observation_id, Val(o.relative_humidity_percent)>> :
        o \in {x \in observations :
                  x.batch_id = id /\ x.relative_humidity_percent # None}}

\* the sum of the values of a set of <<id, value>> pairs
PairSum(S) ==
    SeqSum([k \in 1..Cardinality(S) |->
               (CHOOSE p \in S : p[1] = Kth({q[1] : q \in S}, k))[2]])

\* entry is null when there is no reading, and otherwise the readings'
\* mean to one decimal
IsMeanOrNull(entry, S) ==
    IF S = {} THEN entry = None
    ELSE /\ entry # None
         /\ 2 * Abs(Val(entry) * Cardinality(S) - PairSum(S)) <= Cardinality(S)

\* C20: in average_conditions, avg_temperature (avg_humidity) is null
\* exactly when the batch has no temperature (humidity) reading; when it
\* has readings the entry is their mean, a mean of 0 included.
C20_NullIffNoReadings ==
    op = "compare_batches" =>
        \A i \in DOMAIN ret.average_conditions :
            LET c == ret.average_conditions[i]
            IN  /\ IsMeanOrNull(c.avg_temperature, StoredTemps(c.batch_id))
                /\ IsMeanOrNull(c.avg_humidity, StoredHumidities(c.batch_id))

\* the stored total yield of a batch
StoredTotalYield(id) ==
    PairSum({<<h.harvest_id, h.flush_yield_kg>> : h \in {x \in harvests : x.batch_id = id}})

ComparedTotals == {StoredTotalYield(id) : id \in Range(args.batch_ids)}

\* C21: a comparison emits the yield-difference insight exactly when the
\* largest and the smallest total yield of the compared batches are both
\* > 0; it names a batch with the largest total as best and one with the
\* smallest as worst, and states (best - worst) / worst * 100, a division
\* by a total that is > 0.
C21_YieldDifferenceInsight ==
    (op = "compare_batches" /\ ret.yield_comparison # <<>>) =>
        LET ins == OfKind(ret.insights, {"outperformed"})
            mx == SetMax(ComparedTotals)
            mn == SetMin(ComparedTotals)
        IN  /\ Len(ins) = IF mx > 0 /\ mn > 0 THEN 1 ELSE 0
            /\ \A i \in DOMAIN ins :
                  /\ ins[i].best \in Range(args.batch_ids)
                  /\ ins[i].worst \in Range(args.batch_ids)
                  /\ StoredTotalYield(ins[i].best) = mx
                  /\ StoredTotalYield(ins[i].worst) = mn
                  /\ mn > 0
                  /\ ins[i].percentage_diff = Norm((mx - mn) * 100, mn)

\* C21 witness: totals of 2.0 kg and 1.0 kg were compared: 100%.
C21_Witness ==
    /\ op = "compare_batches"
    /\ \E i \in DOMAIN ret.insights :
          /\ ret.insights[i].kind = "outperformed"
          /\ ret.insights[i].percentage_diff = <<100, 1>>
          /\ StoredTotalYield(ret.insights[i].best) = 20

\* C22: a comparison emits the higher-humidity insight whenever at least
\* two of the compared batches have a non-null humidity average, whatever
\* their yields.
C22_HumidityInsightWheneverTwoAverages ==
    (op = "compare_batches" /\ ret.yield_comparison # <<>>) =>
        LET averaged == {i \in DOMAIN ret.average_conditions :
                            ret.average_conditions[i].avg_humidity # None}
        IN  Cardinality(averaged) >= 2 =>
                Len(OfKind(ret.insights, {"higher_humidity_better_yields"})) = 1

\* max - min of the stored temperature readings of a batch that has some
StoredTempRange(id) ==
    SetMax({p[2] : p \in StoredTemps(id)}) - SetMin({p[2] : p \in StoredTemps(id)})

\* the stability insight is emitted whenever 2 batches of the set S are
\* compared, and the batch it names is one of S with the lowest range
StabilityOver(S) ==
    LET ins == OfKind(ret.insights, {"lower_temperature_variance"})
    IN  /\ Cardinality(S) >= 2 => Len(ins) = 1
        /\ \A i \in DOMAIN ins :
              /\ ins[i].batch_id \in S
              /\ \A id \in S : StoredTempRange(ins[i].batch_id) <= StoredTempRange(id)

\* C23 as claimed: an emitted stability insight names the batch with the
\* lowest temperature range among all compared batches that have
\* temperature readings, and it is emitted whenever at least two compared
\* batches have readings.
C23_StabilityAmongBatchesWithReadings ==
    (op = "compare_batches" /\ ret.yield_comparison # <<>>) =>
        StabilityOver({id \in Range(args.batch_ids) : StoredTemps(id) # {}})

\* C23 amended: the same with the batches that have at least two
\* temperature readings: a batch with a single reading is neither counted
\* nor named.
C23_StabilityAmongBatchesWithTwoReadings ==
    (op = "compare_batches" /\ ret.yield_comparison # <<>>) =>
        StabilityOver({id \in Range(args.batch_ids) : Cardinality(StoredTemps(id)) >= 2})

\* C23 witness: batches with ranges 1.0 and 3.0 were compared and the one
\* with 1.0 was named.
C23_Witness ==
    /\ op = "compare_batches"
    /\ \E i \in DOMAIN ret.insights :
          /\ ret.insights[i].kind = "lower_temperature_variance"
          /\ ret.insights[i].variance = 10
          /\ \E id \in Range(args.batch_ids) : StoredTempRange(id) = 30

\* the positions of the suggestions whose text mentions humidity or
\* temperature: the three temperature suggestions and the two humidity ones
MentioningPositions ==
    {i \in DOMAIN args.suggestions :
        args.suggestions[i].kind \in
            {"temperature_below", "temperature_above", "temperature_optimal",
             "humidity_increase", "humidity_reduce"}}

\* C24: with a non-empty suggestions list the summary's key recommendation
\* is the first suggestion, in list order, that mentions humidity or
\* temperature, and the first suggestion when none does; with an empty
\* list the summary has no key-recommendation clause.
C24_KeyRecommendation ==
    op = "_generate_summary" =>
        LET key == OfKind(ret, {"key_recommendation"})
        IN  IF args.suggestions = <<>> THEN key = <<>>
            ELSE key = <<[kind |-> "key_recommendation",
                          suggestion |->
                              IF MentioningPositions # {}
                              THEN args.suggestions[SetMin(MentioningPositions)]
                              ELSE args.suggestions[1]]>>

\* C24 witness: of a light, a temperature and a humidity suggestion, in
\* that order, the temperature one became the key recommendation.
C24_Witness ==
    /\ op = "_generate_summary"
    /\ Len(args.suggestions) = 3
    /\ args.suggestions[1].kind = "light_above"
    /\ OfKind(ret, {"key_recommendation"}) =
          <<[kind |-> "key_recommendation", suggestion |-> args.suggestions[2]]>>

\* the key of a request: its batch and its date or flush number
RequestKey(f) ==
    <<f.route, f.batch_id,
      IF f.route = "observations" THEN f.body.date ELSE f.body.flush_number>>

\* the rows stored under the key of a request
RowsUnderKey(f) ==
    IF f.route = "observations"
    THEN {o \in observations : o.batch_id = f.batch_id /\ o.date = f.body.date}
    ELSE {h \in harvests : h.batch_id = f.batch_id /\ h.flush_number = f.body.flush_number}

\* the row a request's insert writes, as the request gave it
WrittenRow(f, id) ==
    IF f.route = "observations"
    THEN [observation_id |-> id, batch_id |-> f.batch_id, date |-> f.body.date,
          ambient_temperature_celsius |-> f.body.ambient_temperature_celsius,
          relative_humidity_percent |-> f.body.relative_humidity_percent,
          CO2_level |-> f.body.CO2_level,
          light_hours_per_day |-> f.body.light_hours_per_day]
    ELSE [harvest_id |-> id, batch_id |-> f.batch_id,
          flush_number |-> f.body.flush_number,
          flush_yield_kg |-> f.body.flush_yield_kg,
          total_batch_yield_kg |-> f.body.total_batch_yield_kg,
          date |-> Some(Today)]

\* both requests are for one key and both passed the existence check with no
\* row found
BothPassedCheck ==
    /\ RequestKey(args[1]) = RequestKey(args[2])
    /\ \A c \in Callers : args[c].pc \in {"commit", "done"} /\ args[c].existing = None

\* C25: under every interleaving of two concurrent create_or_update_observation
\* (or create_or_update_harvest) requests, no key ever has two rows; and when
\* both requests are for one key and both pass the existence check before
\* either inserts, the request that inserts second is answered with HTTP 400
\* and leaves the store alone: the key's one row is the row the first
\* request wrote, under the id its response gives.
C25_RaceLeavesOneRow ==
    /\ \A c \in Callers : Cardinality(RowsUnderKey(args[c])) <= 1
    /\ BothPassedCheck =>
          \A w \in Callers : \A l \in Callers \ {w} :
             (args[w].pc = "done" /\ ret[w].status = 201) =>
                /\ RowsUnderKey(args[w]) = {WrittenRow(args[w], ret[w].body)}
                /\ args[l].pc = "done" => ret[l] = [status |-> 400, body |-> 0]

C25_Witness ==
    /\ op = "commit_observation"
    /\ BothPassedCheck
    /\ args[1].body # args[2].body
    /\ \A c \in Callers : args[c].pc = "done"
    /\ ret[1].status = 400
    /\ ret[2].status = 201

\* the stored observations under the key of the request in args'
HitObservations ==
    {o \in observations : o.batch_id = args'.batch_id /\ o.date = args'.obs.date}

\* the stored harvests under the key of the request in args'
HitHarvests ==
    {h \in harvests :
        h.batch_id = args'.batch_id /\ h.flush_number = args'.harvest.flush_number}

\* C26: a create_or_update_observation (or create_or_update_harvest) request
\* that hits an existing row for its key changes that row only, and in it
\* only the fields the request gave explicitly: omitted fields keep their
\* stored values, the row's id and batch_id stay, every other row and every
\* batch stays; a request for a batch id that does not exist is answered 404
\* and changes nothing.
C26_UpdateFrame ==
    [][/\ op' = "create_or_update_observation" =>
            /\ args'.batch_id \notin BatchIds =>
                  ret'.status = 404 /\ store' = store
            /\ (args'.batch_id \in BatchIds /\ HitObservations # {}) =>
                  /\ batches' = batches
                  /\ harvests' = harvests
                  /\ observations \ HitObservations \subseteq observations'
                  /\ Cardinality(observations') = Cardinality(observations)
                  /\ \A o \in HitObservations : \E n \in observations' :
                        /\ n.observation_id = o.observation_id
                        /\ n.batch_id = o.batch_id
                        /\ n.date = o.date
                        /\ \A f \in ObsFieldNames :
                              n[f] = IF f \in args'.obs.fields_set THEN args'.obs[f] ELSE o[f]
       /\ op' = "create_or_update_harvest" =>
            /\ args'.batch_id \notin BatchIds =>
                  ret'.status = 404 /\ store' = store
            /\ (args'.batch_id \in BatchIds /\ HitHarvests # {}) =>
                  /\ batches' = batches
                  /\ observations' = observations
                  /\ harvests \ HitHarvests \subseteq harvests'
                  /\ Cardinality(harvests') = Cardinality(harvests)
                  /\ \A h \in HitHarvests : \E n \in harvests' :
                        /\ n.harvest_id = h.harvest_id
                        /\ n.batch_id = h.batch_id
                        /\ n.flush_number = h.flush_number
                        /\ n.flush_yield_kg = args'.harvest.flush_yield_kg
                        /\ \A f \in {"total_batch_yield_kg", "date"} :
                              n[f] = IF f \in args'.harvest.fields_set
                                     THEN args'.harvest[f] ELSE h[f]
      ]_vars

\* an update that omitted the temperature has left the stored 20.0 in place
\* beside another row
C26_Witness ==
    /\ op = "create_or_update_observation"
    /\ ret.status = 201
    /\ "ambient_temperature_celsius" \notin args.obs.fields_set
    /\ Cardinality(observations) = 2
    /\ \E o \in observations :
          /\ o.observation_id = ret.body
          /\ o.batch_id = args.batch_id
          /\ o.date = args.obs.date
          /\ o.ambient_temperature_celsius = Some(200)

\* the stored batches that carry the name of a seeded batch
SeededBatches == {b \in batches : b.username \in {"Dhanush", "Rakesh", "Gagan"}}

\* C27: a startup (seed_database(clear_existing=False)) leaves the store
\* unchanged when a batch named Dhanush, Rakesh or Gagan exists; when none
\* exists it keeps every stored batch, observation and harvest as it is and
\* adds exactly three batches, one of each name, each with observations and
\* harvests of its own, and nothing else.  A store that holds such a batch
\* holds one ever after, so every startup after the first leaves the store
\* unchanged.
C27_StartupSeedingIdempotent ==
    [][/\ op' = "lifespan" =>
            /\ SeededBatches # {} => store' = store
            /\ SeededBatches = {} =>
                  LET added == batches' \ batches
                      ids == {b.batch_id : b \in added}
                  IN  /\ batches \subseteq batches'
                      /\ observations \subseteq observations'
                      /\ harvests \subseteq harvests'
                      /\ Cardinality(added) = 3
                      /\ Cardinality(ids) = 3
                      /\ ids \cap {b.batch_id : b \in batches} = {}
                      /\ {b.username : b \in added} = {"Dhanush", "Rakesh", "Gagan"}
                      /\ \A o \in observations' \ observations : o.batch_id \in ids
                      /\ \A h \in harvests' \ harvests : h.batch_id \in ids
                      /\ \A id \in ids :
                            /\ \E o \in observations' : o.batch_id = id
                            /\ \E h \in harvests' : h.batch_id = id
            /\ \E b \in batches' : b.username \in {"Dhanush", "Rakesh", "Gagan"}
       /\ SeededBatches # {} =>
             \E b \in batches' : b.username \in {"Dhanush", "Rakesh", "Gagan"}
      ]_vars

\* a startup has seeded a store that already held a user's batch and rows
C27_Witness ==
    /\ op = "lifespan"
    /\ Cardinality(batches) = 4
    /\ Cardinality(SeededBatches) = 3
    /\ \E b \in batches \ SeededBatches :
          /\ \E o \in observations : o.batch_id = b.batch_id
          /\ \E h \in harvests : h.batch_id = b.batch_id

====
